---- MODULE Spec2Model ----
(***************************************************************************)
(* Game sessions of the group-chat bot (src/Main.py): the challenge setup  *)
(* conversation, dice, Connect Four and Battleship play, and stake         *)
(* settlement.                                                             *)
(*                                                                         *)
(* One action per handler.  The python-telegram-bot Application handles    *)
(* one update to completion before the next, so a handler is one step.     *)
(* games.json is games_data, points.json is points,                        *)
(* negative_points_tracker.json is negative_tracker, context.user_data is  *)
(* user_data, the ConversationHandler state of game_setup_handler is conv  *)
(* and that of battleship_placement_handler is bs_conv.                    *)
(* keyboards are the inline keyboards the bot has sent and not yet edited  *)
(* away: a callback query can only come from a button that is on screen.   *)
(* sent_media is the list of stake media the bot has broadcast, and last   *)
(* is the update handled last with the way the handler answered it.        *)
(***************************************************************************)
EXTENDS Integers, Sequences, FiniteSets, TLC

\* ------------------------------------------------------------- bounds
\* Sessions ever created (uuid4 ids are never reused).
MaxGames == 2
\* Sessions in the store at once: a new challenge is issued when fewer are
\* stored (an administrator has run /cleangames).
MaxStored == 1
\* Highest number of points a user types as a stake.
MaxStake == 1
\* The balance every user starts with.
MaxBal == 1
\* Highest value of the die the users roll (a real die has 6).
MaxDie == 2
\* Connect Four columns the users press, counted from the left.
MaxCol == 2
\* Columns still open on the nearly full Connect Four boards.
MaxOpen == 3
\* An administrator removes points from a user down to a balance of -MaxDebt.
MaxDebt == 0
\* Largest amount an administrator adds or removes in one command, and the
\* lowest balance (-MaxOwed) a removal may leave.
MaxAdjust == 2
MaxOwed == 3
\* Settlement is invoked again while no balance exceeds MaxPoints and fewer
\* than MaxMedia files have been broadcast.
MaxPoints == 2
MaxMedia == 2
\* Rows of the Battleship board the participants fire at, from the top.
MaxShot == 2
\* Late in a Battleship game at most MaxAfloat cells of a fleet are not yet
\* hit and at most MaxMiss shots have missed it.
MaxAfloat == 3
MaxMiss == 2

\* The users who play, and the members of the group: user 3 only watches.
Users == {1, 2}
Members == Users \cup {3}
\* Telegram group ids are negative, user ids (and private chats) positive.
Groups == {-1}
GameIds == 1..MaxGames
DiceValues == 1..MaxDie
Columns == 0..(MaxCol - 1)

\* ------------------------------------------------------ program values
GameTypes == {"game_dice", "game_connect_four", "game_battleship"}
RoundChoices == {3, 5, 9}
MediaTypes == {"photo", "video", "voice"}
BATTLESHIP_SHIPS == <<"Carrier", "Battleship", "Cruiser", "Submarine", "Destroyer">>

\* Python's None for a stake and for last_roll; an absent key of a session.
NoStake == [type |-> "none", value |-> 0]
NoRoll == [user_id |-> 0, value |-> 0]
Absent == <<>>

Put(f, k, v) == [x \in (DOMAIN f) \cup {k} |-> IF x = k THEN v ELSE f[x]]
Del(f, k) == [x \in (DOMAIN f) \ {k} |-> f[x]]
Min(S) == CHOOSE x \in S : \A y \in S : x <= y
Max(S) == CHOOSE x \in S : \A y \in S : x >= y

VARIABLES games_data, next_id, points, negative_tracker, user_data, conv,
          bs_conv, keyboards, sent_media, last

vars == <<games_data, next_id, points, negative_tracker, user_data, conv,
          bs_conv, keyboards, sent_media, last>>

Kb(kind, game_id, chat) == [kind |-> kind, game_id |-> game_id, chat |-> chat]
\* An update the handler answered without changing anything it stores.
Rej(op, out) ==
    [op |-> op, chat |-> 0, user |-> 0, game_id |-> 0, arg |-> 0, out |-> out, who |-> 0]
Upd(op, user, game_id, arg, out) ==
    [op |-> op, chat |-> 0, user |-> user, game_id |-> game_id, arg |-> arg, out |-> out, who |-> 0]
\* The update was a message posted in chat.
Posted(chat, answered) == [answered EXCEPT !.chat = chat]
\* An update answered by announcing user who as the winner.
Won(op, user, game_id, arg, out, who) ==
    [op |-> op, chat |-> 0, user |-> user, game_id |-> game_id, arg |-> arg, out |-> out, who |-> who]

Init ==
    /\ games_data = <<>>
    /\ next_id = 1
    /\ points = [grp \in Groups |-> [u \in Members |-> MaxBal]]
    /\ negative_tracker = [grp \in Groups |-> [u \in Members |-> 0]]
    /\ user_data = [u \in Users |-> [game_id |-> 0, player_role |-> "none",
                                   bs_game_id |-> 0, bs_ships_to_place |-> <<>>]]
    /\ conv = [u \in Users |-> "END"]
    /\ bs_conv = [u \in Users |-> "END"]
    /\ keyboards = {}
    /\ sent_media = <<>>
    /\ last = Upd("init", 0, 0, 0, "")

\* ------------------------------------------------------------- points
\* add_user_points with check_for_negative_points, on bank = the points and
\* the strike tracker: the banks it can leave.  On the first and second
\* strike the balance is reset only if restrict_chat_member succeeds (it
\* raises for a chat administrator and the exception is swallowed), so both
\* outcomes are possible.  No punishment thresholds are configured
\* (check_for_punishment returns at once).
AddUserPoints(bank, grp, u, delta) ==
    LET p == bank.points[grp][u] + delta
        current_strikes == bank.tracker[grp][u] + 1
    IN  IF p >= 0
        THEN {[points |-> [bank.points EXCEPT ![grp][u] = p],
               tracker |-> [bank.tracker EXCEPT ![grp][u] = 0]]}
        ELSE IF current_strikes < 3
        THEN {[points |-> [bank.points EXCEPT ![grp][u] = reset],
               tracker |-> [bank.tracker EXCEPT ![grp][u] = current_strikes]]
                 : reset \in {0, p}}
        ELSE {[points |-> [bank.points EXCEPT ![grp][u] = p],
               tracker |-> [bank.tracker EXCEPT ![grp][u] = 0]]}

Bank == [points |-> points, tracker |-> negative_tracker]

\* ------------------------------------------------------- session store
NewSession(grp, c, o) ==
    [group_id |-> grp, challenger_id |-> c, opponent_id |-> o,
     game_type |-> "none", challenger_stake |-> NoStake, opponent_stake |-> NoStake,
     status |-> "pending_game_selection",
     rounds_to_play |-> 0, current_round |-> 0, challenger_score |-> 0,
     opponent_score |-> 0, last_roll |-> NoRoll,
     board |-> Absent, turn |-> 0,
     boards |-> Absent, ships |-> Absent, placement_complete |-> Absent]

EmptyC4Board == [r \in 0..5 |-> [c \in 0..6 |-> 0]]
EmptyBsBoard == [r \in 0..9 |-> [c \in 0..9 |-> 0]]

\* Mutation of SelfChallenge: the test is left out.
SelfChallengeAllowed(c, o) == FALSE

\* The command is a reply to a message of its own sender.
SelfChallenge(c, o) == c = o

\* /newgame as a reply to a message of user o, sent by user c in group grp.
newgame_command(grp, c, o) ==
    IF SelfChallenge(c, o)
    THEN /\ last' = Upd("newgame", c, 0, 0, "You cannot challenge yourself.")
         /\ UNCHANGED <<games_data, next_id, points, negative_tracker, user_data,
                        conv, bs_conv, keyboards, sent_media>>
    ELSE /\ games_data' = Put(games_data, next_id, NewSession(grp, c, o))
         /\ next_id' = next_id + 1
         /\ keyboards' = keyboards \cup {Kb("start_game_setup", next_id, c)}
         /\ last' = Upd("newgame", c, next_id, 0, "challenged")
         /\ UNCHANGED <<points, negative_tracker, user_data, conv, bs_conv, sent_media>>

\* ------------------------------------------------ setup conversation
\* Entry point of game_setup_handler: taken only while the user's
\* conversation is not running.  The button sits in the challenger's
\* private chat and is replaced by the game keyboard.
start_game_setup(u, g) ==
    /\ Kb("start_game_setup", g, u) \in keyboards
    /\ conv[u] = "END"
    /\ user_data' = [user_data EXCEPT ![u].game_id = g]
    /\ conv' = [conv EXCEPT ![u] = "GAME_SELECTION"]
    /\ keyboards' = keyboards \ {Kb("start_game_setup", g, u)}
    /\ last' = Upd("start_game_setup", u, g, 0, "select game")
    /\ UNCHANGED <<bs_conv, games_data, next_id, points, negative_tracker, sent_media>>

game_selection(u, game_type) ==
    LET g == user_data[u].game_id IN
    /\ conv[u] = "GAME_SELECTION"
    /\ IF g \notin DOMAIN games_data
       THEN /\ last' = Rej("game_selection", "KeyError")
            /\ UNCHANGED <<games_data, conv>>
       ELSE /\ games_data' = [games_data EXCEPT ![g] =
                IF game_type = "game_connect_four"
                THEN [@ EXCEPT !.game_type = game_type, !.board = EmptyC4Board,
                               !.turn = games_data[g].challenger_id]
                ELSE [@ EXCEPT !.game_type = game_type]]
            /\ conv' = [conv EXCEPT ![u] =
                IF game_type = "game_dice" THEN "ROUND_SELECTION"
                ELSE "STAKE_TYPE_SELECTION"]
            /\ last' = Upd("game_selection", u, g, 0, game_type)
    /\ UNCHANGED <<bs_conv, next_id, points, negative_tracker, user_data, keyboards, sent_media>>

round_selection(u, rounds) ==
    LET g == user_data[u].game_id IN
    /\ conv[u] = "ROUND_SELECTION"
    /\ IF g \notin DOMAIN games_data
       THEN /\ last' = Rej("round_selection", "KeyError")
            /\ UNCHANGED <<games_data, conv>>
       ELSE /\ games_data' = [games_data EXCEPT ![g].rounds_to_play = rounds]
            /\ conv' = [conv EXCEPT ![u] = "STAKE_TYPE_SELECTION"]
            /\ last' = Upd("round_selection", u, g, rounds, "select stake type")
    /\ UNCHANGED <<bs_conv, next_id, points, negative_tracker, user_data, keyboards, sent_media>>

stake_type_selection(u, stake_type) ==
    /\ conv[u] = "STAKE_TYPE_SELECTION"
    /\ conv' = [conv EXCEPT ![u] =
          IF stake_type = "stake_points" THEN "STAKE_SUBMISSION_POINTS"
          ELSE "STAKE_SUBMISSION_MEDIA"]
    /\ last' = Upd("stake_type_selection", u, user_data[u].game_id, 0, stake_type)
    /\ UNCHANGED <<bs_conv, games_data, next_id, points, negative_tracker, user_data,
                   keyboards, sent_media>>


\* What the opponent's branch of stake_submission_points (and its copy in
\* stake_submission_media) does to the session once the stake is stored.
Activate(game) ==
    LET c == game.challenger_id
        o == game.opponent_id
        g1 == IF game.game_type = "game_dice"
              THEN [game EXCEPT !.current_round = 1, !.challenger_score = 0,
                                !.opponent_score = 0, !.last_roll = NoRoll]
              ELSE game
        g2 == [g1 EXCEPT !.status = "active"]
    IN  IF game.game_type = "game_battleship"
        THEN [g2 EXCEPT !.boards = [p \in {c, o} |-> EmptyBsBoard],
                        !.ships = [p \in {c, o} |-> <<>>],
                        !.placement_complete = [p \in {c, o} |-> FALSE],
                        !.turn = c]
        ELSE g2

\* The keyboards the activation sends: the Connect Four board to the group,
\* "Begin Ship Placement" to both private chats.
ActivationKeyboards(g, game) ==
    IF game.game_type = "game_connect_four"
    THEN {Kb("c4_move", g, game.group_id)}
    ELSE IF game.game_type = "game_battleship"
    THEN {Kb("bs_start_placement", g, game.challenger_id),
          Kb("bs_start_placement", g, game.opponent_id)}
    ELSE {}

\* The stake is stored under the role user_data holds, then the opponent's
\* branch activates the session and the challenger's shows the confirmation.
StoreStake(u, g, stake, op, arg) ==
    IF user_data[u].player_role = "opponent"
    THEN /\ games_data' = [games_data EXCEPT ![g] =
                Activate([@ EXCEPT !.opponent_stake = stake])]
         /\ keyboards' = keyboards \cup ActivationKeyboards(g, games_data[g])
         /\ conv' = [conv EXCEPT ![u] = "END"]
         /\ last' = Upd(op, u, g, arg, "game on")
    ELSE /\ games_data' = [games_data EXCEPT ![g].challenger_stake = stake]
         /\ keyboards' = keyboards \cup {Kb("confirmation", g, u)}
         /\ conv' = [conv EXCEPT ![u] = "CONFIRMATION"]
         /\ last' = Upd(op, u, g, arg, "confirmation")

\* The text of the message: int(text) raises ValueError unless it is a number.
Texts(amounts) ==
    {[numeric |-> TRUE, value |-> n] : n \in amounts}
        \cup {[numeric |-> FALSE, value |-> 0]}

stake_submission_points(u, text) ==
    LET g == user_data[u].game_id IN
    /\ conv[u] = "STAKE_SUBMISSION_POINTS"
    /\ IF ~text.numeric
       THEN /\ last' = Rej("stake_submission_points", "ValueError")
            /\ UNCHANGED <<games_data, keyboards, conv>>
       ELSE IF g \notin DOMAIN games_data
       THEN /\ last' = Rej("stake_submission_points", "KeyError")
            /\ UNCHANGED <<games_data, keyboards, conv>>
       ELSE IF points[games_data[g].group_id][u] < text.value
       THEN /\ last' = Rej("stake_submission_points", "not enough points")
            /\ UNCHANGED <<games_data, keyboards, conv>>
       ELSE StoreStake(u, g, [type |-> "points", value |-> text.value],
                       "stake_submission_points", text.value)
    /\ UNCHANGED <<bs_conv, next_id, points, negative_tracker, user_data, sent_media>>

\* A photo, video or voice message (the state's filter lets nothing else in);
\* the file id is modelled as the id of the user who sent the file.
stake_submission_media(u, media_type) ==
    LET g == user_data[u].game_id IN
    /\ conv[u] = "STAKE_SUBMISSION_MEDIA"
    /\ IF g \notin DOMAIN games_data
       THEN /\ last' = Rej("stake_submission_media", "KeyError")
            /\ UNCHANGED <<games_data, keyboards, conv>>
       ELSE StoreStake(u, g, [type |-> media_type, value |-> u],
                       "stake_submission_media", 0)
    /\ UNCHANGED <<bs_conv, next_id, points, negative_tracker, user_data, sent_media>>

\* Mutation of confirm_game_setup: the confirmation message keeps its
\* buttons and the conversation stays in CONFIRMATION.
confirm_game_setup_unedited(u, g) ==
    /\ conv[u] = "CONFIRMATION"
    /\ Kb("confirmation", g, u) \in keyboards
    /\ IF g \notin DOMAIN games_data
       THEN /\ last' = Rej("confirm_game_setup", "KeyError")
            /\ UNCHANGED <<games_data, keyboards, conv>>
       ELSE /\ games_data' = [games_data EXCEPT ![g].status = "pending_opponent_acceptance"]
            /\ keyboards' = keyboards \cup {Kb("challenge", g, games_data[g].group_id)}
            /\ last' = Upd("confirm_game_setup", u, g, 0, "challenge sent")
            /\ UNCHANGED conv
    /\ UNCHANGED <<bs_conv, next_id, points, negative_tracker, user_data, sent_media>>

\* The three buttons of the confirmation message, which names its session.
confirm_game_setup(u, g) ==
    /\ conv[u] = "CONFIRMATION"
    /\ Kb("confirmation", g, u) \in keyboards
    /\ IF g \notin DOMAIN games_data
       THEN /\ last' = Rej("confirm_game_setup", "KeyError")
            /\ UNCHANGED <<games_data, keyboards, conv>>
       ELSE /\ games_data' = [games_data EXCEPT ![g].status = "pending_opponent_acceptance"]
            /\ keyboards' = (keyboards \ {Kb("confirmation", g, u)})
                                \cup {Kb("challenge", g, games_data[g].group_id)}
            /\ conv' = [conv EXCEPT ![u] = "END"]
            /\ last' = Upd("confirm_game_setup", u, g, 0, "challenge sent")
    /\ UNCHANGED <<bs_conv, next_id, points, negative_tracker, user_data, sent_media>>

cancel_game_setup(u, g) ==
    LET stored == user_data[u].game_id IN
    /\ conv[u] = "CONFIRMATION"
    /\ Kb("confirmation", g, u) \in keyboards
    /\ games_data' = IF stored \in DOMAIN games_data THEN Del(games_data, stored)
                     ELSE games_data
    /\ keyboards' = keyboards \ {Kb("confirmation", g, u)}
    /\ conv' = [conv EXCEPT ![u] = "END"]
    /\ last' = Upd("cancel_game_setup", u, stored, 0, "cancelled")
    /\ UNCHANGED <<bs_conv, next_id, points, negative_tracker, user_data, sent_media>>

restart_game_setup(u, g) ==
    /\ conv[u] = "CONFIRMATION"
    /\ Kb("confirmation", g, u) \in keyboards
    /\ user_data' = [user_data EXCEPT ![u].game_id = g]
    /\ conv' = [conv EXCEPT ![u] = "GAME_SELECTION"]
    /\ keyboards' = keyboards \ {Kb("confirmation", g, u)}
    /\ last' = Upd("restart_game_setup", u, g, 0, "select game")
    /\ UNCHANGED <<bs_conv, games_data, next_id, points, negative_tracker, sent_media>>

\* Mutation of RefusedStakeMedia: nothing is broadcast.
RefusedStakeMediaKept(game, stake) == <<>>

\* What the refuse branch broadcasts: a photo, video or voice stake of the
\* challenger goes to the group; for a points stake only a text is sent.
RefusedStakeMedia(game, stake) ==
    IF stake.type \in MediaTypes
    THEN <<[chat |-> game.group_id, type |-> stake.type, value |-> stake.value]>>
    ELSE <<>>

\* Accept or Refuse on the challenge message of the group, pressed by any user.
challenge_response_handler(u, g, response_type) ==
    /\ \E grp \in Groups : Kb("challenge", g, grp) \in keyboards
    /\ IF g \notin DOMAIN games_data
       THEN /\ keyboards' = {k \in keyboards : ~(k.kind = "challenge" /\ k.game_id = g)}
            /\ last' = Upd(response_type, u, g, 0, "no longer valid")
            /\ UNCHANGED <<games_data, sent_media>>
       ELSE LET game == games_data[g]
                stake == game.challenger_stake
            IN
            IF u # game.opponent_id
            THEN /\ last' = Rej(response_type, "This challenge is not for you.")
                 /\ UNCHANGED <<games_data, keyboards, sent_media>>
            ELSE IF response_type = "accept_challenge"
            THEN /\ games_data' = [games_data EXCEPT ![g].status = "pending_opponent_stake"]
                 /\ keyboards' = (keyboards \ {Kb("challenge", g, game.group_id)})
                                     \cup {Kb("opponent_setup", g, u)}
                 /\ last' = Upd(response_type, u, g, 0, "accepted")
                 /\ UNCHANGED sent_media
            ELSE IF stake = NoStake
            THEN /\ last' = Upd(response_type, u, g, 0, "TypeError")
                 /\ UNCHANGED <<games_data, keyboards, sent_media>>
            ELSE /\ sent_media' = sent_media \o RefusedStakeMedia(game, stake)
                 /\ games_data' = Del(games_data, g)
                 /\ keyboards' = keyboards \ {Kb("challenge", g, game.group_id)}
                 /\ last' = Upd(response_type, u, g, 0, "refused")
    /\ UNCHANGED <<bs_conv, next_id, points, negative_tracker, user_data, conv>>

\* Mutation of start_opponent_setup: the button message is not edited, so
\* "Set your stakes" can be pressed again.
start_opponent_setup_unedited(u, g) ==
    /\ Kb("opponent_setup", g, u) \in keyboards
    /\ conv[u] = "END"
    /\ IF g \notin DOMAIN games_data \/ games_data[g].opponent_id # u
       THEN /\ last' = Upd("start_opponent_setup", u, g, 0, "not a valid game")
            /\ UNCHANGED <<user_data, conv>>
       ELSE /\ user_data' = [user_data EXCEPT ![u] =
                                [@ EXCEPT !.game_id = g, !.player_role = "opponent"]]
            /\ conv' = [conv EXCEPT ![u] = "STAKE_TYPE_SELECTION"]
            /\ last' = Upd("start_opponent_setup", u, g, 0, "select stake type")
    /\ UNCHANGED <<bs_conv, games_data, next_id, points, negative_tracker, sent_media,
                   keyboards>>

\* Second entry point of game_setup_handler: "Set your stakes" in the private
\* chat of the user who accepted.
start_opponent_setup(u, g) ==
    /\ Kb("opponent_setup", g, u) \in keyboards
    /\ conv[u] = "END"
    /\ keyboards' = keyboards \ {Kb("opponent_setup", g, u)}
    /\ IF g \notin DOMAIN games_data \/ games_data[g].opponent_id # u
       THEN /\ last' = Upd("start_opponent_setup", u, g, 0, "not a valid game")
            /\ UNCHANGED <<user_data, conv>>
       ELSE /\ user_data' = [user_data EXCEPT ![u] =
                                [@ EXCEPT !.game_id = g, !.player_role = "opponent"]]
            /\ conv' = [conv EXCEPT ![u] = "STAKE_TYPE_SELECTION"]
            /\ last' = Upd("start_opponent_setup", u, g, 0, "select stake type")
    /\ UNCHANGED <<bs_conv, games_data, next_id, points, negative_tracker, sent_media>>

\* ---------------------------------------------------------- settlement
Media(game, stake) == [chat |-> game.group_id, type |-> stake.type, value |-> stake.value]

\* Mutation of LoserStake: an unset stake falls back on the other stake.
LoserStakeFallback(game, loser_id) ==
    LET own == IF game.challenger_id = loser_id THEN game.challenger_stake
               ELSE game.opponent_stake
        other == IF game.challenger_id = loser_id THEN game.opponent_stake
                 ELSE game.challenger_stake
    IN  IF own = NoStake THEN other ELSE own

\* The stake the loser put up.
LoserStake(game, loser_id) ==
    IF game.challenger_id = loser_id THEN game.challenger_stake ELSE game.opponent_stake

\* Mutation of Transfer: the loser is never debited.
TransferCreditOnly(bank, grp, winner_id, loser_id, points_val) ==
    AddUserPoints(bank, grp, winner_id, points_val)

\* The two add_user_points calls of handle_game_over: the winner is
\* credited, then the loser debited.
Transfer(bank, grp, winner_id, loser_id, points_val) ==
    UNION {AddUserPoints(credited, grp, loser_id, 0 - points_val) :
              credited \in AddUserPoints(bank, grp, winner_id, points_val)}

\* handle_game_over(game_id, winner_id, loser_id) on its own copy of the store.
handle_game_over(g, winner_id, loser_id) ==
    LET game == games_data[g]
        loser_stake == LoserStake(game, loser_id)
    IN  IF loser_stake = NoStake
        THEN UNCHANGED <<games_data, points, negative_tracker, sent_media>>
        ELSE /\ IF loser_stake.type = "points"
                THEN /\ \E paid \in Transfer(Bank, game.group_id, winner_id,
                                             loser_id, loser_stake.value) :
                            /\ points' = paid.points
                            /\ negative_tracker' = paid.tracker
                     /\ UNCHANGED sent_media
                ELSE /\ sent_media' = Append(sent_media, Media(game, loser_stake))
                     /\ UNCHANGED <<points, negative_tracker>>
             /\ games_data' = [games_data EXCEPT ![g].status = "complete"]

\* handle_game_over called once more with the arguments of the call that
\* has just settled the session.
handle_game_over_again(g, winner_id, loser_id) ==
    /\ g \in DOMAIN games_data
    /\ games_data[g].status = "complete"
    /\ last.game_id = g
    /\ last.who = winner_id
    /\ loser_id = (IF winner_id = games_data[g].challenger_id
                   THEN games_data[g].opponent_id ELSE games_data[g].challenger_id)
    /\ handle_game_over(g, winner_id, loser_id)
    /\ last' = Won("handle_game_over", 0, g, 0, "again", winner_id)
    /\ UNCHANGED <<bs_conv, next_id, user_data, conv, keyboards>>

\* ------------------------------------------------------- Connect Four
\* Mutation of check_connect_four_win: the up-right diagonals are looked for
\* from the two lowest rows only.
check_connect_four_win_short(board, player_num) ==
    \/ \E r \in 0..5, c \in 0..3 : \A i \in 0..3 : board[r][c + i] = player_num
    \/ \E r \in 0..2, c \in 0..6 : \A i \in 0..3 : board[r + i][c] = player_num
    \/ \E r \in 0..2, c \in 0..3 : \A i \in 0..3 : board[r + i][c + i] = player_num
    \/ \E r \in 4..5, c \in 0..3 : \A i \in 0..3 : board[r - i][c + i] = player_num

check_connect_four_win(board, player_num) ==
    \/ \E r \in 0..5, c \in 0..3 : \A i \in 0..3 : board[r][c + i] = player_num
    \/ \E r \in 0..2, c \in 0..6 : \A i \in 0..3 : board[r + i][c] = player_num
    \/ \E r \in 0..2, c \in 0..3 : \A i \in 0..3 : board[r + i][c + i] = player_num
    \/ \E r \in 3..5, c \in 0..3 : \A i \in 0..3 : board[r - i][c + i] = player_num

\* Mutation of check_connect_four_draw: the bottom row is looked at.
check_connect_four_draw_bottom(board) == \A c \in 0..6 : board[5][c] # 0

check_connect_four_draw(board) == \A c \in 0..6 : board[0][c] # 0

\* check_connect_four_win applied to the stored board of session g for the
\* piece player_num, its result written to last.
check_connect_four_win_call(g, player_num) ==
    /\ g \in DOMAIN games_data
    /\ games_data[g].board # Absent
    /\ last' = Upd("check_connect_four_win", 0, g, player_num,
                   IF check_connect_four_win(games_data[g].board, player_num)
                   THEN "True" ELSE "False")
    /\ UNCHANGED <<bs_conv, games_data, next_id, points, negative_tracker, user_data, conv,
                   keyboards, sent_media>>

\* Mutation of LowestEmptyRow: the loop runs from the top row down.
HighestEmptyRow(empty_rows) == Min(empty_rows)

\* The row the loop "for r in range(5, -1, -1)" stops at.
LowestEmptyRow(empty_rows) == Max(empty_rows)

\* Mutation of NextTurn: the turn stays with the mover.
NextTurnKept(game, u) == u

\* Switch turns: the participant who did not move.
NextTurn(game, u) ==
    IF u = game.challenger_id THEN game.opponent_id ELSE game.challenger_id

\* A column button of the board message in the group, pressed by any user.
connect_four_move_handler(u, g, col) ==
    /\ \E grp \in Groups : Kb("c4_move", g, grp) \in keyboards
    /\ IF g \notin DOMAIN games_data \/ games_data[g].status # "active"
       THEN /\ keyboards' = {k \in keyboards : ~(k.kind = "c4_move" /\ k.game_id = g)}
            /\ last' = Upd("c4_move", u, g, col, "This game is no longer active.")
            /\ UNCHANGED <<games_data, points, negative_tracker, sent_media>>
       ELSE LET game == games_data[g]
                player_num == IF u = game.challenger_id THEN 1 ELSE 2
                empty_rows == {r \in 0..5 : game.board[r][col] = 0}
                board == [game.board EXCEPT ![LowestEmptyRow(empty_rows)][col] = player_num]
                other == IF u = game.challenger_id THEN game.opponent_id
                         ELSE game.challenger_id
                shown == {k \in keyboards : ~(k.kind = "c4_move" /\ k.game_id = g)}
            IN
            IF game.turn # u
            THEN /\ last' = Rej("c4_move", "It's not your turn!")
                 /\ UNCHANGED <<games_data, keyboards, points, negative_tracker, sent_media>>
            ELSE IF empty_rows = {}
            THEN /\ last' = Rej("c4_move", "This column is full!")
                 /\ UNCHANGED <<games_data, keyboards, points, negative_tracker, sent_media>>
            ELSE IF check_connect_four_win(board, player_num)
            THEN /\ handle_game_over(g, u, other)
                 /\ keyboards' = shown
                 /\ last' = Won("c4_move", u, g, col, "wins", u)
            ELSE IF check_connect_four_draw(board)
            THEN /\ games_data' = [games_data EXCEPT ![g] =
                        [@ EXCEPT !.board = board, !.status = "complete"]]
                 /\ keyboards' = shown
                 /\ last' = Upd("c4_move", u, g, col, "draw")
                 /\ UNCHANGED <<points, negative_tracker, sent_media>>
            ELSE /\ games_data' = [games_data EXCEPT ![g] =
                        [@ EXCEPT !.board = board, !.turn = NextTurn(game, u)]]
                 /\ last' = Upd("c4_move", u, g, col, "moved")
                 /\ UNCHANGED <<keyboards, points, negative_tracker, sent_media>>
    /\ UNCHANGED <<bs_conv, next_id, user_data, conv>>

\* --------------------------------------------------------------- dice
\* The first session of the store (insertion order = id order) that is an
\* active dice game of the user; 0 when there is none.
ActiveDiceGame(u) ==
    LET found == {g \in DOMAIN games_data :
                     /\ games_data[g].game_type = "game_dice"
                     /\ games_data[g].status = "active"
                     /\ (games_data[g].challenger_id = u \/ games_data[g].opponent_id = u)}
    IN  IF found = {} THEN 0 ELSE Min(found)

\* Mutation of RoundsToWin: half the rounds, without the extra one.
RoundsToWinHalf(rounds_to_play) == rounds_to_play \div 2

\* The score that ends a best-of-rounds_to_play match.
RoundsToWin(rounds_to_play) == (rounds_to_play \div 2) + 1

\* Mutation of DiceTransfer: the stake is moved the wrong way.
DiceTransferReversed(bank, grp, winner_id, loser_id, value) ==
    UNION {AddUserPoints(credited, grp, winner_id, 0 - value) :
              credited \in AddUserPoints(bank, grp, loser_id, value)}

\* The two add_user_points calls of the round-over branch.
DiceTransfer(bank, grp, winner_id, loser_id, value) ==
    UNION {AddUserPoints(credited, grp, loser_id, 0 - value) :
              credited \in AddUserPoints(bank, grp, winner_id, value)}

\* Mutation of TieReplay: the tie uses up the round.
TieReplayNextRound(game) == [game EXCEPT !.last_roll = NoRoll, !.current_round = @ + 1]

\* Equal rolls: the pending roll is dropped and the round is rolled again.
TieReplay(game) == [game EXCEPT !.last_roll = NoRoll]

\* A dice message of user u showing value.
dice_roll_handler(chat, u, value) ==
    LET g == ActiveDiceGame(u) IN
    /\ IF g = 0
       THEN /\ last' = Posted(chat, Rej("dice", "no active game"))
            /\ UNCHANGED <<games_data, points, negative_tracker, sent_media>>
       ELSE LET game == games_data[g]
                last_roll == game.last_roll
                winner_id == IF last_roll.value > value THEN last_roll.user_id ELSE u
                scored == IF winner_id = game.challenger_id
                          THEN [game EXCEPT !.challenger_score = @ + 1]
                          ELSE [game EXCEPT !.opponent_score = @ + 1]
                rounds_to_win == RoundsToWin(game.rounds_to_play)
                game_winner_id == IF scored.challenger_score > scored.opponent_score
                                  THEN game.challenger_id ELSE game.opponent_id
                game_loser_id == IF scored.challenger_score > scored.opponent_score
                                 THEN game.opponent_id ELSE game.challenger_id
                loser_stake == LoserStake(game, game_loser_id)
            IN
            IF last_roll = NoRoll
            THEN /\ games_data' = [games_data EXCEPT ![g].last_roll =
                                       [user_id |-> u, value |-> value]]
                 /\ last' = Posted(chat, Upd("dice", u, g, value, "first roll"))
                 /\ UNCHANGED <<points, negative_tracker, sent_media>>
            ELSE IF last_roll.user_id = u
            THEN /\ last' = Posted(chat, Rej("dice", "It's not your turn to roll."))
                 /\ UNCHANGED <<games_data, points, negative_tracker, sent_media>>
            ELSE IF last_roll.value = value
            THEN /\ games_data' = [games_data EXCEPT ![g] = TieReplay(game)]
                 /\ last' = Posted(chat, Upd("dice", u, g, value, "tie"))
                 /\ UNCHANGED <<points, negative_tracker, sent_media>>
            ELSE IF scored.challenger_score >= rounds_to_win
                    \/ scored.opponent_score >= rounds_to_win
            THEN IF loser_stake = NoStake
                 THEN /\ last' = Posted(chat, Upd("dice", u, g, value, "TypeError"))
                      /\ UNCHANGED <<games_data, points, negative_tracker, sent_media>>
                 ELSE /\ IF loser_stake.type = "points"
                         THEN /\ \E paid \in DiceTransfer(Bank, game.group_id,
                                         game_winner_id, game_loser_id, loser_stake.value) :
                                     /\ points' = paid.points
                                     /\ negative_tracker' = paid.tracker
                              /\ UNCHANGED sent_media
                         ELSE /\ sent_media' = Append(sent_media, Media(game, loser_stake))
                              /\ UNCHANGED <<points, negative_tracker>>
                      /\ games_data' = [games_data EXCEPT ![g] =
                                            [scored EXCEPT !.status = "complete"]]
                      /\ last' = Posted(chat, Won("dice", u, g, value, "game over", game_winner_id))
            ELSE /\ games_data' = [games_data EXCEPT ![g] =
                        [scored EXCEPT !.current_round = @ + 1, !.last_roll = NoRoll]]
                 /\ last' = Posted(chat, Upd("dice", u, g, value, "next round"))
                 /\ UNCHANGED <<points, negative_tracker, sent_media>>
    /\ UNCHANGED <<bs_conv, next_id, user_data, conv, keyboards>>

\* Mutation of LatestActiveGame: the status is not looked at.
LatestGameAnyStatus(grp, loser_id) ==
    LET found == {g \in DOMAIN games_data :
                     /\ games_data[g].group_id = grp
                     /\ (games_data[g].challenger_id = loser_id
                           \/ games_data[g].opponent_id = loser_id)}
    IN  IF found = {} THEN 0 ELSE Max(found)

\* ------------------------------------------------------ admin commands
\* /loser <user> in group grp, sent by an administrator: the last session of
\* the store that is an active game of the user in this group.
LatestActiveGame(grp, loser_id) ==
    LET found == {g \in DOMAIN games_data :
                     /\ games_data[g].group_id = grp
                     /\ games_data[g].status = "active"
                     /\ (games_data[g].challenger_id = loser_id
                           \/ games_data[g].opponent_id = loser_id)}
    IN  IF found = {} THEN 0 ELSE Max(found)

\* The two add_user_points calls of loser_command.
LoserTransfer(bank, grp, winner_id, loser_id, value) ==
    UNION {AddUserPoints(credited, grp, loser_id, 0 - value) :
              credited \in AddUserPoints(bank, grp, winner_id, value)}

loser_command(grp, loser_id) ==
    LET g == LatestActiveGame(grp, loser_id) IN
    /\ IF g = 0
       THEN /\ last' = Rej("loser", "No active game found")
            /\ UNCHANGED <<games_data, points, negative_tracker, sent_media>>
       ELSE LET game == games_data[g]
                winner_id == IF game.challenger_id = loser_id THEN game.opponent_id
                             ELSE game.challenger_id
                loser_stake == LoserStake(game, loser_id)
            IN
            IF loser_stake = NoStake
            THEN /\ last' = Upd("loser", loser_id, g, 0, "TypeError")
                 /\ UNCHANGED <<games_data, points, negative_tracker, sent_media>>
            ELSE /\ IF loser_stake.type = "points"
                    THEN /\ \E paid \in LoserTransfer(Bank, game.group_id, winner_id,
                                                      loser_id, loser_stake.value) :
                                /\ points' = paid.points
                                /\ negative_tracker' = paid.tracker
                         /\ UNCHANGED sent_media
                    ELSE /\ sent_media' = Append(sent_media, Media(game, loser_stake))
                         /\ UNCHANGED <<points, negative_tracker>>
                 /\ games_data' = [games_data EXCEPT ![g].status = "complete"]
                 /\ last' = Won("loser", loser_id, g, 0, "is a loser", winner_id)
    /\ UNCHANGED <<bs_conv, next_id, user_data, conv, keyboards>>

\* The add/remove points flow of conversation_handler: the administrator's
\* reply to the question /addpoints or /removepoints asked about user
\* target_id of group grp (state_key is the key the command left in the
\* administrator's user_data).
conversation_handler(state_key, grp, target_id, text) ==
    /\ IF ~text.numeric
       THEN /\ last' = Rej(state_key, "ValueError")
            /\ UNCHANGED <<points, negative_tracker>>
       ELSE /\ \E paid \in AddUserPoints(Bank, grp, target_id,
                        IF state_key = "awaiting_addpoints_value" THEN text.value
                        ELSE 0 - text.value) :
                   /\ points' = paid.points
                   /\ negative_tracker' = paid.tracker
            /\ last' = Upd(state_key, target_id, 0, text.value, "done")
    /\ UNCHANGED <<bs_conv, games_data, next_id, user_data, conv, keyboards, sent_media>>

cleangames_command ==
    LET games_to_keep == [g \in {x \in DOMAIN games_data :
                                    games_data[x].status # "complete"} |-> games_data[g]]
    IN
    /\ games_data' = games_to_keep
    /\ last' = Upd("cleangames", 0, 0, 0,
                   IF DOMAIN games_to_keep = DOMAIN games_data
                   THEN "No completed games to clean up."
                   ELSE "Cleaned up completed games.")
    /\ UNCHANGED <<bs_conv, next_id, points, negative_tracker, user_data, conv, keyboards,
                   sent_media>>

\* -------------------------------------------------------- Battleship
\* BATTLESHIP_SHIPS maps each ship to its length; the tuple above is the
\* order of its keys.
ShipSize ==
    [Carrier |-> 5, Battleship |-> 4, Cruiser |-> 3, Submarine |-> 3, Destroyer |-> 2]

\* A coordinate pair as Python holds it.  bs_handle_placement builds
\* tuples; save_games_data writes a tuple as a JSON array and
\* load_games_data reads an array back as a list; a tuple never equals a
\* list.
PyTuple(r, c) == [py |-> "tuple", r |-> r, c |-> c]
PyList(r, c) == [py |-> "list", r |-> r, c |-> c]
\* What load_games_data returns for the coordinates save_games_data wrote.
load_saved_coords(ship_coords) ==
    [i \in DOMAIN ship_coords |-> PyList(ship_coords[i].r, ship_coords[i].c)]

\* A text is the sequence of its words and a word the sequence of its
\* characters.  The characters the users type are the column letters, K,
\* D, the digits and j, h, v in lower case.
ColumnLetters == <<"A", "B", "C", "D", "E", "F", "G", "H", "I", "J">>
Digits == <<"0", "1", "2", "3", "4", "5", "6", "7", "8", "9">>
IndexOf(seq, x) == CHOOSE i \in DOMAIN seq : seq[i] = x
InSeq(seq, x) == \E i \in DOMAIN seq : seq[i] = x
upper(word) ==
    [i \in DOMAIN word |->
        CASE word[i] = "j" -> "J" [] word[i] = "h" -> "H" [] word[i] = "v" -> "V"
          [] OTHER -> word[i]]
isdigit(word) == Len(word) > 0 /\ \A i \in DOMAIN word : InSeq(Digits, word[i])
RECURSIVE int(_)
int(word) ==
    IF Len(word) = 0 THEN 0
    ELSE 10 * int(SubSeq(word, 1, Len(word) - 1)) + (IndexOf(Digits, word[Len(word)]) - 1)

\* Python's None as the result of parse_bs_coords.
None == <<>>

\* parse_bs_coords: 'A1' style coordinates into (row, col), or None.
parse_bs_coords(word) ==
    LET coord_str == upper(word) IN
    IF ~(2 <= Len(coord_str) /\ Len(coord_str) <= 3) THEN None
    ELSE LET col_char == coord_str[1]
             row_str == Tail(coord_str)
         IN  IF ~(InSeq(ColumnLetters, col_char) /\ isdigit(row_str)) THEN None
             ELSE LET row == int(row_str) - 1
                      col == IndexOf(ColumnLetters, col_char) - 1
                  IN  IF row \in 0..9 /\ col \in 0..9 THEN <<row, col>> ELSE None

\* check_bs_ship_sunk: every coordinate of the ship is a hit (3) on the board.
check_bs_ship_sunk(board, ship_coords) ==
    \A i \in DOMAIN ship_coords : board[ship_coords[i].r][ship_coords[i].c] = 3

\* The keyboards of a turn: the column buttons, then the row buttons of
\* the column chosen.
BsKb(kind, game_id, chat, col) ==
    [kind |-> kind, game_id |-> game_id, chat |-> chat, col |-> col]

\* bs_send_turn_message: a new message with the column buttons in the
\* private chat of the participant whose turn it is.
bs_send_turn_message(g, game) == {BsKb("bs_col", g, game.turn, 0)}

\* "Begin Ship Placement" pressed, the entry point of
\* battleship_placement_handler.  The callback data is
\* bs_start_placement_<uuid4>, which split('_') cuts into four pieces, so
\* the unpacking into three names raises ValueError before anything is read
\* or stored: the conversation stays where it was and the button stays.
bs_start_placement(u, g) ==
    /\ Kb("bs_start_placement", g, u) \in keyboards
    /\ bs_conv[u] = "END"
    /\ last' = Upd("bs_start_placement", u, g, 0, "ValueError")
    /\ UNCHANGED <<games_data, next_id, points, negative_tracker, user_data, conv,
                   bs_conv, keyboards, sent_media>>

\* Mutation of ShipCells: the loop stops one cell early.
ShipCellsShort(r_start, c_start, orientation, ship_size) ==
    [i \in 1..(ship_size - 1) |->
        IF orientation = <<"H">> THEN <<r_start, c_start + (i - 1)>>
        ELSE <<r_start + (i - 1), c_start>>]

\* The cells a ship of ship_size cells covers from (r_start, c_start), in
\* the order the loop of bs_handle_placement visits them.
ShipCells(r_start, c_start, orientation, ship_size) ==
    [i \in 1..ship_size |->
        IF orientation = <<"H">> THEN <<r_start, c_start + (i - 1)>>
        ELSE <<r_start + (i - 1), c_start>>]

\* Mutation of ValidPlacement: the cells are on the board, empty or not.
ValidPlacementOnBoard(board, cells) ==
    \A i \in DOMAIN cells : cells[i][1] \in 0..9 /\ cells[i][2] \in 0..9

\* The loop leaves valid true when every cell is on the board and empty.
ValidPlacement(board, cells) ==
    \A i \in DOMAIN cells :
        /\ cells[i][1] \in 0..9 /\ cells[i][2] \in 0..9
        /\ board[cells[i][1]][cells[i][2]] = 0

\* Mutation of OpponentPlaced: play starts as soon as one fleet is placed.
OpponentPlacedOrNot(game, opponent_id) == TRUE

\* The test of bs_handle_placement before bs_start_game_in_group: the other
\* participant has placed all ships.
OpponentPlaced(game, opponent_id) == game.placement_complete[opponent_id]

\* bs_handle_placement: a text message in the private chat of user u while
\* the placement conversation waits for one.
bs_handle_placement(u, n, text) ==
    LET g == user_data[u].bs_game_id
        game == games_data[g]
        board == game.boards[u]
        ship_name == user_data[u].bs_ships_to_place[1]
        ship_size == ShipSize[ship_name]
        parts == [i \in DOMAIN text |-> upper(text[i])]
        start_pos == parse_bs_coords(parts[1])
        orientation == parts[2]
        cells == ShipCells(start_pos[1], start_pos[2], orientation, ship_size)
        ship_coords == [i \in DOMAIN cells |-> PyTuple(cells[i][1], cells[i][2])]
        placed == [r \in 0..9 |-> [c \in 0..9 |->
                     IF InSeq(cells, <<r, c>>) THEN 1 ELSE board[r][c]]]
        rest == Tail(user_data[u].bs_ships_to_place)
        opponent_id == IF u = game.challenger_id THEN game.opponent_id
                       ELSE game.challenger_id
        stored == [game EXCEPT !.boards[u] = placed,
                     !.ships[u] = Put(@, ship_name, load_saved_coords(ship_coords))]
    IN
    /\ bs_conv[u] = "BS_AWAITING_PLACEMENT"
    /\ IF g = 0
       THEN /\ bs_conv' = [bs_conv EXCEPT ![u] = "END"]
            /\ last' = Upd("bs_placement", u, g, n, "END")
            /\ UNCHANGED <<games_data, user_data, keyboards>>
       ELSE IF g \notin DOMAIN games_data
       THEN /\ last' = Upd("bs_placement", u, g, n, "KeyError")
            /\ UNCHANGED <<games_data, user_data, bs_conv, keyboards>>
       ELSE IF Len(parts) # 2
       THEN /\ last' = Upd("bs_placement", u, g, n, "Invalid format.")
            /\ UNCHANGED <<games_data, user_data, bs_conv, keyboards>>
       ELSE IF start_pos = None \/ orientation \notin {<<"H">>, <<"V">>}
       THEN /\ last' = Upd("bs_placement", u, g, n, "Invalid coordinate or orientation.")
            /\ UNCHANGED <<games_data, user_data, bs_conv, keyboards>>
       ELSE IF ~ValidPlacement(board, cells)
       THEN /\ last' = Upd("bs_placement", u, g, n, "Invalid placement")
            /\ UNCHANGED <<games_data, user_data, bs_conv, keyboards>>
       ELSE /\ user_data' = [user_data EXCEPT ![u].bs_ships_to_place = rest]
            /\ last' = Upd("bs_placement", u, g, n, ship_name)
            /\ IF rest = <<>>
               THEN /\ games_data' = [games_data EXCEPT ![g] =
                           [stored EXCEPT !.placement_complete[u] = TRUE]]
                    /\ bs_conv' = [bs_conv EXCEPT ![u] = "END"]
                    /\ keyboards' = IF OpponentPlaced(game, opponent_id)
                                    THEN keyboards \cup bs_send_turn_message(g, game)
                                    ELSE keyboards
               ELSE /\ games_data' = [games_data EXCEPT ![g] = stored]
                    /\ UNCHANGED <<bs_conv, keyboards>>
    /\ UNCHANGED <<next_id, points, negative_tracker, conv, sent_media>>

\* Mutation of bs_placement_cancel: the session is not deleted.
bs_placement_cancel_kept(u) ==
    LET g == user_data[u].bs_game_id IN
    /\ bs_conv[u] = "BS_AWAITING_PLACEMENT"
    /\ user_data' = [user_data EXCEPT ![u] =
                        [game_id |-> 0, player_role |-> "none",
                         bs_game_id |-> 0, bs_ships_to_place |-> <<>>]]
    /\ bs_conv' = [bs_conv EXCEPT ![u] = "END"]
    /\ last' = Upd("bs_placement_cancel", u, g, 0,
                   IF g \in DOMAIN games_data THEN "cancelled, other player notified"
                   ELSE "cancelled")
    /\ UNCHANGED <<games_data, next_id, points, negative_tracker, conv, keyboards,
                   sent_media>>

\* /cancel while the placement conversation runs: the other participant is
\* told, the session is deleted and user_data is cleared.
bs_placement_cancel(u) ==
    LET g == user_data[u].bs_game_id IN
    /\ bs_conv[u] = "BS_AWAITING_PLACEMENT"
    /\ games_data' = IF g \in DOMAIN games_data THEN Del(games_data, g) ELSE games_data
    /\ user_data' = [user_data EXCEPT ![u] =
                        [game_id |-> 0, player_role |-> "none",
                         bs_game_id |-> 0, bs_ships_to_place |-> <<>>]]
    /\ bs_conv' = [bs_conv EXCEPT ![u] = "END"]
    /\ last' = Upd("bs_placement_cancel", u, g, 0,
                   IF g \in DOMAIN games_data THEN "cancelled, other player notified"
                   ELSE "cancelled")
    /\ UNCHANGED <<next_id, points, negative_tracker, conv, keyboards, sent_media>>

\* conversation_timeout=600 of battleship_placement_handler: ten minutes
\* after the last update of the conversation it ends.  No handler is
\* registered for ConversationHandler.TIMEOUT, so nothing else happens.
bs_placement_timeout(u) ==
    /\ bs_conv[u] = "BS_AWAITING_PLACEMENT"
    /\ bs_conv' = [bs_conv EXCEPT ![u] = "END"]
    /\ last' = Upd("bs_placement_timeout", u, user_data[u].bs_game_id, 0, "END")
    /\ UNCHANGED <<games_data, next_id, points, negative_tracker, user_data, conv,
                   keyboards, sent_media>>

\* bs_select_col_handler: the column buttons of the message are replaced by
\* the row buttons of column c.
bs_select_col_handler(u, g, c) ==
    /\ BsKb("bs_col", g, u, 0) \in keyboards
    /\ keyboards' = (keyboards \ {BsKb("bs_col", g, u, 0)}) \cup {BsKb("bs_attack", g, u, c)}
    /\ last' = Upd("bs_col", u, g, c, "select row")
    /\ UNCHANGED <<games_data, next_id, points, negative_tracker, user_data, conv,
                   bs_conv, sent_media>>

\* The cell (r, c) as the argument of an update.
Cell(r, c) == r * 10 + c

\* The ships of the fleet the attack reports as sunk: the loop announces
\* the first ship that holds the tuple (r, c) and is sunk.
SunkReported(fleet, board, r, c) ==
    {ship \in DOMAIN fleet :
        InSeq(fleet[ship], PyTuple(r, c)) /\ check_bs_ship_sunk(board, fleet[ship])}

\* Mutation of AlreadyFired: only a miss counts as fired at.
AlreadyFiredMiss(target_val) == target_val = 2

\* The test of bs_attack_handler on the target cell: a miss (2) or a hit (3).
AlreadyFired(target_val) == target_val \in {2, 3}

\* Mutation of PassTurn: the turn stays with the attacker.
PassTurnKept(game, opponent_id) == game

\* game['turn'] = int(opponent_id_str)
PassTurn(game, opponent_id) == [game EXCEPT !.turn = opponent_id]

\* bs_attack_handler: a row button of column c pressed by user u.
bs_attack_handler(u, g, r, c) ==
    LET kb == BsKb("bs_attack", g, u, c) IN
    /\ kb \in keyboards
    /\ IF g \notin DOMAIN games_data \/ games_data[g].status # "active"
       THEN /\ keyboards' = keyboards \ {kb}
            /\ last' = Upd("bs_attack", u, g, Cell(r, c), "This game is no longer active.")
            /\ UNCHANGED <<games_data, points, negative_tracker, sent_media>>
       ELSE LET game == games_data[g]
                opponent_id == IF u = game.challenger_id THEN game.opponent_id
                               ELSE game.challenger_id
                opponent_board == game.boards[opponent_id]
                target_val == opponent_board[r][c]
                fired == [opponent_board EXCEPT ![r][c] =
                             IF target_val = 0 THEN 2 ELSE IF target_val = 1 THEN 3 ELSE @]
                fleet == game.ships[opponent_id]
                sunk == SunkReported(fleet, fired, r, c)
                result_text == IF target_val = 0 THEN "It's a MISS!"
                               ELSE IF target_val # 1 THEN ""
                               ELSE IF sunk = {} THEN "It's a HIT!"
                               ELSE CHOOSE ship \in sunk : TRUE
                all_sunk == \A ship \in DOMAIN fleet : check_bs_ship_sunk(fired, fleet[ship])
                turned == PassTurn([game EXCEPT !.boards[opponent_id] = fired], opponent_id)
            IN  IF game.turn # u
                THEN /\ last' = Upd("bs_attack", u, g, Cell(r, c), "It's not your turn!")
                     /\ UNCHANGED <<games_data, keyboards, points, negative_tracker, sent_media>>
                ELSE IF AlreadyFired(target_val)
                THEN /\ last' = Upd("bs_attack", u, g, Cell(r, c),
                                    "You have already fired at this location.")
                     /\ UNCHANGED <<games_data, keyboards, points, negative_tracker, sent_media>>
                ELSE IF all_sunk
                THEN /\ handle_game_over(g, u, opponent_id)
                     /\ keyboards' = keyboards \ {kb}
                     /\ last' = Won("bs_attack", u, g, Cell(r, c), result_text, u)
                ELSE /\ games_data' = [games_data EXCEPT ![g] = turned]
                     /\ keyboards' = (keyboards \ {kb}) \cup bs_send_turn_message(g, turned)
                     /\ last' = Upd("bs_attack", u, g, Cell(r, c), result_text)
                     /\ UNCHANGED <<points, negative_tracker, sent_media>>
    /\ UNCHANGED <<next_id, user_data, conv, bs_conv>>

\* ------------------------------------------------------ specification
\* The updates the users and administrators send.  A challenge is issued
\* while fewer than MaxStored sessions are stored and fewer than MaxGames
\* have been created.
Challenge ==
    \E grp \in Groups, c \in Users, o \in Users :
        /\ c = o \/ (next_id <= MaxGames /\ Cardinality(DOMAIN games_data) < MaxStored)
        /\ newgame_command(grp, c, o)

\* The setup conversation, with the game types the challengers pick, the
\* kinds of stake the users pick and the amounts they type.
SetupFlow(types, kinds, amounts) ==
    \/ \E u \in Users, g \in GameIds : start_game_setup(u, g)
    \/ \E u \in Users, t \in types : game_selection(u, t)
    \/ \E u \in Users, t \in kinds : stake_type_selection(u, t)
    \/ \E u \in Users, text \in Texts(amounts) : stake_submission_points(u, text)
    \/ \E u \in Users, g \in GameIds : confirm_game_setup(u, g)
    \/ \E u \in Users, g \in GameIds : cancel_game_setup(u, g)
    \/ \E u \in Users, g \in GameIds : restart_game_setup(u, g)
    \/ \E u \in Users, g \in GameIds, r \in {"accept_challenge", "refuse_challenge"} :
            challenge_response_handler(u, g, r)
    \/ \E u \in Users, g \in GameIds : start_opponent_setup(u, g)

MediaStake(media) == \E u \in Users, t \in media : stake_submission_media(u, t)

RoundChoice(rounds) == \E u \in Users, n \in rounds : round_selection(u, n)

PlayDice ==
    \E chat \in Groups, u \in Users, v \in DiceValues : dice_roll_handler(chat, u, v)

PlayConnectFour ==
    \E u \in Users, g \in GameIds, col \in Columns : connect_four_move_handler(u, g, col)

Loser == \E grp \in Groups, u \in Users : loser_command(grp, u)

\* An administrator removes points from a user.
RemovePoints ==
    \E grp \in Groups, u \in Users, text \in Texts(1..MaxStake) :
        /\ points[grp][u] - text.value >= 0 - MaxDebt
        /\ conversation_handler("awaiting_removepoints_value", grp, u, text)

\* Settlement is invoked a second time.
SettleAgain ==
    \E g \in GameIds, w \in Users, l \in Users :
        /\ \A grp \in Groups, u \in Members : points[grp][u] <= MaxPoints
        /\ Len(sent_media) < MaxMedia
        /\ handle_game_over_again(g, w, l)

StakeKinds == {"stake_points", "stake_media"}

\* Every game type, best of 3, stakes in points.
Next ==
    \/ Challenge
    \/ SetupFlow(GameTypes, {"stake_points"}, 1..MaxStake)
    \/ RoundChoice({3})
    \/ PlayDice
    \/ PlayConnectFour
    \/ Loser
    \/ cleangames_command

Spec == Init /\ [][Next]_vars

\* Dice matches of every length, stakes in points.
NextDice ==
    \/ Challenge
    \/ SetupFlow({"game_dice"}, {"stake_points"}, 1..MaxStake)
    \/ RoundChoice(RoundChoices)
    \/ PlayDice
    \/ Loser
    \/ cleangames_command

SpecDice == Init /\ [][NextDice]_vars

\* Dice, best of 3, with every stake a user can send: any number, negative
\* ones too, and every kind of media.
NextStakes ==
    \/ Challenge
    \/ SetupFlow({"game_dice"}, StakeKinds, (0 - 1)..MaxStake)
    \/ MediaStake(MediaTypes)
    \/ RoundChoice({3})
    \/ PlayDice
    \/ Loser
    \/ cleangames_command

SpecStakes == Init /\ [][NextStakes]_vars

\* Connect Four for points while an administrator removes points; finished
\* sessions are not cleaned up.
NextSettle ==
    \/ Challenge
    \/ SetupFlow({"game_connect_four"}, {"stake_points"}, 1..MaxStake)
    \/ PlayConnectFour
    \/ RemovePoints

SpecSettle == Init /\ [][NextSettle]_vars

\* Dice, best of 3, for stakes of 0 points and more, while an administrator
\* removes points; finished sessions are not cleaned up.
NextDiceSettle ==
    \/ Challenge
    \/ SetupFlow({"game_dice"}, {"stake_points"}, 0..MaxStake)
    \/ RoundChoice({3})
    \/ PlayDice
    \/ RemovePoints

SpecDiceSettle == Init /\ [][NextDiceSettle]_vars

\* The boards check_connect_four_win is applied to: a line of three or four
\* cells of one piece in any of the four directions anywhere on the board,
\* as it is or with one of its cells taken by the other piece, on a board
\* that is otherwise empty or otherwise full of the other piece.
LineDirections == {<<0, 1>>, <<1, 0>>, <<1, 1>>, <<-1, 1>>}
LineLengths == {3, 4}
LineCells(r, c, d, n) == {<<r + i * d[1], c + i * d[2]>> : i \in 0..(n - 1)}
BoardLines ==
    {line \in {LineCells(r, c, d, n) : r \in 0..5, c \in 0..6,
                                       d \in LineDirections, n \in LineLengths} :
        \A cell \in line : cell[1] \in 0..5 /\ cell[2] \in 0..6}
LineBoard(line, piece, broken, rest) ==
    [r \in 0..5 |-> [c \in 0..6 |->
        IF <<r, c>> \in broken THEN 3 - piece
        ELSE IF <<r, c>> \in line THEN piece
        ELSE rest]]
LineBoards ==
    UNION {{LineBoard(line, piece, broken, rest) :
               piece \in {1, 2},
               broken \in {{}} \cup {{cell} : cell \in line},
               rest \in {0, 1, 2}} : line \in BoardLines}

\* An active Connect Four session holding one of these boards.
InitWin ==
    /\ \E board \in LineBoards :
          games_data = (1 :> [Activate([NewSession(CHOOSE grp \in Groups : TRUE, 1, 2) EXCEPT
                                 !.game_type = "game_connect_four",
                                 !.challenger_stake = [type |-> "points", value |-> 1],
                                 !.opponent_stake = [type |-> "points", value |-> 1],
                                 !.turn = 1])
                              EXCEPT !.board = board])
    /\ next_id = 2
    /\ points = [grp \in Groups |-> [u \in Members |-> MaxBal]]
    /\ negative_tracker = [grp \in Groups |-> [u \in Members |-> 0]]
    /\ user_data = [u \in Users |-> [game_id |-> 0, player_role |-> "none",
                                   bs_game_id |-> 0, bs_ships_to_place |-> <<>>]]
    /\ conv = [u \in Users |-> "END"]
    /\ bs_conv = [u \in Users |-> "END"]
    /\ keyboards = {}
    /\ sent_media = <<>>
    /\ last = Upd("init", 0, 0, 0, "")

NextWin == \E g \in GameIds, player_num \in {1, 2} : check_connect_four_win_call(g, player_num)

SpecWin == InitWin /\ [][NextWin]_vars

\* Two full boards, top row first, that the players can reach: one without
\* four in a line, one where only the piece at the top of column 4
\* completes four in a line.
DrawnRows ==
    << <<1, 1, 2, 2, 1, 1, 2>>, <<2, 2, 1, 1, 2, 2, 1>>, <<1, 1, 2, 2, 1, 1, 2>>,
       <<2, 2, 1, 1, 2, 2, 1>>, <<1, 1, 2, 2, 1, 1, 2>>, <<2, 2, 1, 1, 2, 2, 1>> >>
WonRows ==
    << <<2, 1, 2, 2, 2, 1, 1>>, <<2, 2, 1, 2, 2, 2, 1>>, <<1, 1, 2, 1, 1, 1, 2>>,
       <<2, 2, 1, 1, 2, 2, 1>>, <<1, 1, 2, 2, 1, 1, 2>>, <<2, 1, 1, 1, 2, 2, 1>> >>
BoardOf(rows) == [r \in 0..5 |-> [c \in 0..6 |-> rows[r + 1][c + 1]]]

\* A full board with the top cells of the columns in open taken off again.
OpenBoard(full, open) ==
    [full EXCEPT ![0] = [c \in 0..6 |-> IF c \in open THEN 0 ELSE full[0][c]]]

\* The boards a game is in when at most MaxOpen moves are left: the pieces
\* taken off are those of the last moves (the challenger moves first), and
\* nobody has won.
NearlyFullBoards ==
    UNION {{OpenBoard(full, open) :
               open \in {o \in SUBSET (0..6) :
                   /\ Cardinality(o) \in 1..MaxOpen
                   /\ Cardinality({c \in o : full[0][c] = 2})
                         - Cardinality({c \in o : full[0][c] = 1}) \in {0, 1}}} :
           full \in {BoardOf(DrawnRows), BoardOf(WonRows)}}
        \ {board \in {OpenBoard(BoardOf(WonRows), o) : o \in SUBSET (0..6)} :
               check_connect_four_win(board, 1) \/ check_connect_four_win(board, 2)}

\* An active Connect Four session in its last moves, for a stake of 1 point
\* or a photo on either side.
InitDraw ==
    /\ \E board \in NearlyFullBoards,
          cs \in {[type |-> "points", value |-> 1], [type |-> "photo", value |-> 1]},
          os \in {[type |-> "points", value |-> 1], [type |-> "photo", value |-> 2]} :
          games_data = (1 :> [Activate([NewSession(CHOOSE grp \in Groups : TRUE, 1, 2) EXCEPT
                                 !.game_type = "game_connect_four",
                                 !.challenger_stake = cs,
                                 !.opponent_stake = os])
                              EXCEPT !.board = board,
                                     !.turn = IF Cardinality({c \in 0..6 : board[0][c] = 0}) % 2 = 0
                                              THEN 1 ELSE 2])
    /\ next_id = 2
    /\ points = [grp \in Groups |-> [u \in Members |-> MaxBal]]
    /\ negative_tracker = [grp \in Groups |-> [u \in Members |-> 0]]
    /\ user_data = [u \in Users |-> [game_id |-> 1, player_role |-> "none",
                                   bs_game_id |-> 0, bs_ships_to_place |-> <<>>]]
    /\ conv = [u \in Users |-> "END"]
    /\ bs_conv = [u \in Users |-> "END"]
    /\ keyboards = {Kb("c4_move", 1, grp) : grp \in Groups}
    /\ sent_media = <<>>
    /\ last = Upd("init", 0, 0, 0, "")

\* The players press any of the seven columns.
PlayAnyColumn ==
    \E u \in Users, g \in GameIds, col \in 0..6 : connect_four_move_handler(u, g, col)

NextDraw == PlayAnyColumn

SpecDraw == InitDraw /\ [][NextDraw]_vars

\* Connect Four for points and photos, with settlement invoked again on
\* finished sessions.
NextResettle ==
    \/ Challenge
    \/ SetupFlow({"game_connect_four"}, StakeKinds, 1..MaxStake)
    \/ MediaStake({"photo"})
    \/ PlayConnectFour
    \/ SettleAgain

SpecResettle == Init /\ [][NextResettle]_vars

\* Battleship from the challenge to the "Begin Ship Placement" buttons.
BeginPlacement == \E u \in Users, g \in GameIds : bs_start_placement(u, g)

NextBattleship ==
    \/ Challenge
    \/ SetupFlow({"game_battleship"}, {"stake_points"}, 1..MaxStake)
    \/ BeginPlacement

SpecBattleship == Init /\ [][NextBattleship]_vars

\* The texts the participants send while placing: F1 H, G2 H, H3 H, H4 h,
\* j9 v, K1 H, A11 H, A1 D and A1.
PlacementTexts ==
    << << <<"F", "1">>, <<"H">> >>,
       << <<"G", "2">>, <<"H">> >>,
       << <<"H", "3">>, <<"H">> >>,
       << <<"H", "4">>, <<"h">> >>,
       << <<"j", "9">>, <<"v">> >>,
       << <<"K", "1">>, <<"H">> >>,
       << <<"A", "1", "1">>, <<"H">> >>,
       << <<"A", "1">>, <<"D">> >>,
       << <<"A", "1">> >> >>

\* The cells the participants fire at: the first MaxShot rows of columns E
\* and F.
ShotRows == 0..(MaxShot - 1)
ShotCols == {4, 5}

\* An active Battleship session for a stake of one point each, with both
\* placement conversations waiting for the first ship as lines 891-905 of
\* bs_start_placement leave them.
InitPlacement ==
    /\ games_data = (1 :> Activate([NewSession(CHOOSE grp \in Groups : TRUE, 1, 2) EXCEPT
                             !.game_type = "game_battleship",
                             !.challenger_stake = [type |-> "points", value |-> 1],
                             !.opponent_stake = [type |-> "points", value |-> 1]]))
    /\ next_id = 2
    /\ points = [grp \in Groups |-> [u \in Members |-> MaxBal]]
    /\ negative_tracker = [grp \in Groups |-> [u \in Members |-> 0]]
    /\ user_data = [u \in Users |->
                      [game_id |-> 1, player_role |-> IF u = 2 THEN "opponent" ELSE "none",
                       bs_game_id |-> 1, bs_ships_to_place |-> BATTLESHIP_SHIPS]]
    /\ conv = [u \in Users |-> "END"]
    /\ bs_conv = [u \in Users |-> "BS_AWAITING_PLACEMENT"]
    /\ keyboards = {}
    /\ sent_media = <<>>
    /\ last = Upd("init", 0, 0, 0, "")

Place ==
    \E u \in Users, n \in DOMAIN PlacementTexts : bs_handle_placement(u, n, PlacementTexts[n])

CancelPlacement == \E u \in Users : bs_placement_cancel(u)

PlacementTimeout == \E u \in Users : bs_placement_timeout(u)

Fire ==
    \/ \E u \in Users, g \in GameIds, c \in ShotCols : bs_select_col_handler(u, g, c)
    \/ \E u \in Users, g \in GameIds, r \in ShotRows, c \in ShotCols :
          bs_attack_handler(u, g, r, c)

NextPlacement ==
    \/ Place
    \/ CancelPlacement
    \/ PlacementTimeout
    \/ Fire

SpecPlacement == InitPlacement /\ [][NextPlacement]_vars

\* The fleet bs_handle_placement stores for a participant whose k-th
\* accepted text is PlacementTexts[order[k]], and the board with its cells.
PlacedFleet(order) ==
    [ship \in {BATTLESHIP_SHIPS[k] : k \in DOMAIN BATTLESHIP_SHIPS} |->
        LET text == PlacementTexts[order[IndexOf(BATTLESHIP_SHIPS, ship)]]
            start_pos == parse_bs_coords(text[1])
            cells == ShipCells(start_pos[1], start_pos[2], upper(text[2]), ShipSize[ship])
        IN  load_saved_coords([i \in DOMAIN cells |-> PyTuple(cells[i][1], cells[i][2])])]

PlacedBoard(fleet) ==
    [r \in 0..9 |-> [c \in 0..9 |->
        IF \E ship \in DOMAIN fleet : InSeq(fleet[ship], PyList(r, c)) THEN 1 ELSE 0]]

\* The fleet of F1 H, G2 H, H3 H, H4 h, j9 v sent in this order.
Fleet == PlacedFleet(<<1, 2, 3, 4, 5>>)

\* Late in the game: the cells of the fleet that may still be afloat (J10,
\* J9, J1, J2) and the water cells of column J already fired at.
AfloatCells == SubSeq(<< <<9, 9>>, <<8, 9>>, <<0, 9>>, <<1, 9>> >>, 1, Min({MaxAfloat, 4}))
MissedCells == << <<7, 9>>, <<6, 9>>, <<5, 9>>, <<4, 9>> >>

\* The board of a fleet with every ship cell hit but those of afloat, and
\* the first misses cells of MissedCells fired at.
FiredBoard(fleet, afloat, misses) ==
    [r \in 0..9 |-> [c \in 0..9 |->
        IF PlacedBoard(fleet)[r][c] = 1
        THEN IF <<r, c>> \in afloat THEN 1 ELSE 3
        ELSE IF \E i \in 1..misses : MissedCells[i] = <<r, c>> THEN 2 ELSE 0]]

FiredCount(board) ==
    Cardinality({rc \in (0..9) \X (0..9) : board[rc[1]][rc[2]] \in {2, 3}})

\* An active Battleship session late in the game.  The challenger fires
\* first and the turns alternate, so the opponent's board has been fired at
\* as often as the challenger's, or once more when it is the opponent's
\* turn.  The opponent's stake is one point; the challenger's is one point
\* or unset (a session activated by the challenger's own stake submission).
InitAttack ==
    /\ \E afloat_c \in (SUBSET {AfloatCells[i] : i \in DOMAIN AfloatCells}) \ {{}},
          afloat_o \in (SUBSET {AfloatCells[i] : i \in DOMAIN AfloatCells}) \ {{}},
          misses_c \in 0..MaxMiss, misses_o \in 0..MaxMiss,
          cs \in {NoStake, [type |-> "points", value |-> 1]} :
          LET board_c == FiredBoard(Fleet, afloat_c, misses_c)
              board_o == FiredBoard(Fleet, afloat_o, misses_o)
              session == Activate([NewSession(CHOOSE grp \in Groups : TRUE, 1, 2) EXCEPT
                             !.game_type = "game_battleship",
                             !.challenger_stake = cs,
                             !.opponent_stake = [type |-> "points", value |-> 1]])
          IN  /\ FiredCount(board_o) - FiredCount(board_c) \in {0, 1}
              /\ games_data = (1 :> [session EXCEPT
                     !.boards = (1 :> board_c) @@ (2 :> board_o),
                     !.ships = (1 :> Fleet) @@ (2 :> Fleet),
                     !.placement_complete = (1 :> TRUE) @@ (2 :> TRUE),
                     !.turn = IF FiredCount(board_o) = FiredCount(board_c) THEN 1 ELSE 2])
    /\ next_id = 2
    /\ points = [grp \in Groups |-> [u \in Members |-> MaxBal]]
    /\ negative_tracker = [grp \in Groups |-> [u \in Members |-> 0]]
    /\ user_data = [u \in Users |->
                      [game_id |-> 1, player_role |-> IF u = 2 THEN "opponent" ELSE "none",
                       bs_game_id |-> 1, bs_ships_to_place |-> <<>>]]
    /\ conv = [u \in Users |-> "END"]
    /\ bs_conv = [u \in Users |-> "END"]
    /\ keyboards = bs_send_turn_message(1, games_data[1])
    /\ sent_media = <<>>
    /\ last = Upd("init", 0, 0, 0, "")

\* The participants fire at J1, J2, J8, J9 and J10.
FireLate ==
    \/ \E u \in Users, g \in GameIds : bs_select_col_handler(u, g, 9)
    \/ \E u \in Users, g \in GameIds, r \in {0, 1, 7, 8, 9} : bs_attack_handler(u, g, r, 9)

NextAttack == FireLate

SpecAttack == InitAttack /\ [][NextAttack]_vars

\* ---------------------------------------------------------- properties
\* The other participant of a session.
OtherPlayer(game, u) ==
    IF u = game.challenger_id THEN game.opponent_id ELSE game.challenger_id

\* The stake of participant u, read off the session.
StakeOf(game, u) ==
    IF game.challenger_id = u THEN game.challenger_stake ELSE game.opponent_stake

\* C1: in every reachable state, every stored session whose status is active
\* has its challenger_stake, its opponent_stake and its game_type set.
C1_ActiveHasStakesAndGame ==
    \A g \in DOMAIN games_data :
        games_data[g].status = "active" =>
            /\ games_data[g].challenger_stake # NoStake
            /\ games_data[g].opponent_stake # NoStake
            /\ games_data[g].game_type # "none"

\* C2: a step of stake_submission_points either leaves the store and the
\* submitter's conversation state as they were, or the amount it recorded is
\* at least 0 and at most the submitter's balance in the session's group.
C2_StakeWithinBalance ==
    [][(last'.op = "stake_submission_points") =>
          \/ games_data' = games_data /\ conv' = conv
          \/ /\ 0 <= last'.arg
             /\ last'.arg <= points[games_data[last'.game_id].group_id][last'.user]]_vars

\* A step in which connect_four_move_handler called handle_game_over on a
\* session whose loser staked points.
C3_Step ==
    /\ last'.op = "c4_move"
    /\ last'.out = "wins"
    /\ StakeOf(games_data[last'.game_id],
               OtherPlayer(games_data[last'.game_id], last'.user)).type = "points"

\* The balances of everybody but the winner and the loser are unchanged and
\* the session is complete.
C3_Rest(g, w, l) ==
    /\ \A grp \in Groups, u \in Members :
          (grp # games_data[g].group_id \/ u \notin {w, l}) =>
              points'[grp][u] = points[grp][u]
    /\ games_data'[g].status = "complete"

C3_Adjusted(prev, delta, strikes, new) ==
    IF prev + delta >= 0 THEN new = prev + delta
    ELSE IF strikes < 2 THEN new \in {0, prev + delta}
    ELSE new = prev + delta

C4_SettleAgainChangesNothing ==
    [][(last'.op = "handle_game_over") =>
          points' = points /\ sent_media' = sent_media]_vars

\* C5: when the opponent refuses a challenge whose challenger staked v
\* points, the challenger has v less, the opponent v more, and the session
\* is gone from the store.
C5_RefusePaysStake ==
    [][(last'.out = "refused"
          /\ games_data[last'.game_id].challenger_stake.type = "points") =>
          LET g == last'.game_id
              game == games_data[g]
              grp == game.group_id
              v == game.challenger_stake.value
          IN  /\ points'[grp][game.challenger_id] = points[grp][game.challenger_id] - v
              /\ points'[grp][game.opponent_id] = points[grp][game.opponent_id] + v
              /\ g \notin DOMAIN games_data']_vars

\* C6: a session becomes active only from pending_opponent_stake (the
\* challenger confirmed and the opponent accepted), with its game type and
\* the challenger's stake recorded, in the step that records the
\* opponent's stake.
C6_ActiveOnlyAfterAccept ==
    [][\A g \in (DOMAIN games_data) \cap (DOMAIN games_data') :
          (games_data'[g].status = "active" /\ games_data[g].status # "active") =>
              /\ games_data[g].status = "pending_opponent_stake"
              /\ games_data[g].game_type # "none"
              /\ games_data[g].challenger_stake # NoStake
              /\ games_data[g].opponent_stake = NoStake
              /\ games_data'[g].opponent_stake # NoStake]_vars

\* C7: a stake submitted by the challenger of the flow's session (the flow
\* entered through start_game_setup) is recorded as challenger_stake,
\* leaves opponent_stake and status as they were and moves the flow to the
\* confirmation; opponent_stake is recorded and the session activated only
\* by its opponent (the flow entered through start_opponent_setup).
C7_StakeFollowsEntryPoint ==
    [][(last'.op \in {"stake_submission_points", "stake_submission_media"}
          /\ last'.user # 0) =>
          LET u == last'.user
              g == last'.game_id
              a == games_data[g]
              b == games_data'[g]
          IN  /\ (u = a.challenger_id) =>
                    /\ b.challenger_stake # NoStake
                    /\ b.opponent_stake = a.opponent_stake
                    /\ b.status = a.status
                    /\ conv'[u] = "CONFIRMATION"
              /\ (b.opponent_stake # a.opponent_stake \/ b.status # a.status) =>
                    /\ u = a.opponent_id
                    /\ b.status = "active"]_vars

\* Nothing is paid, nothing is broadcast and the store is as it was.
C8_Aborted ==
    /\ games_data' = games_data
    /\ points' = points
    /\ negative_tracker' = negative_tracker
    /\ sent_media' = sent_media

\* The loser of the match, when the roll of this step ends a dice match:
\* it answers a pending roll of the other player with another value, and
\* the round's winner reaches the score that wins the match.  0 otherwise.
C8_DiceLoser ==
    IF last'.op = "dice" /\ last'.user # 0
    THEN LET game == games_data[last'.game_id]
             roll == game.last_roll
             round_winner == IF roll.value > last'.arg THEN roll.user_id ELSE last'.user
             cs == game.challenger_score
                     + (IF round_winner = game.challenger_id THEN 1 ELSE 0)
             os == game.opponent_score
                     + (IF round_winner = game.challenger_id THEN 0 ELSE 1)
             needed == (game.rounds_to_play \div 2) + 1
         IN  IF roll # NoRoll /\ roll.user_id # last'.user /\ roll.value # last'.arg
                /\ (cs >= needed \/ os >= needed)
             THEN (IF cs > os THEN game.opponent_id ELSE game.challenger_id)
             ELSE 0
    ELSE 0

\* C8: in every path that settles a session (handle_game_over called for a
\* Connect Four win, the round-over branch of dice_roll_handler,
\* loser_command), when the loser's stake is unset no balance changes, no
\* media is sent and the session keeps its status.
C8_UnsetStakeAborts ==
    [][/\ (last'.op = "c4_move" /\ last'.out = "wins"
             /\ StakeOf(games_data[last'.game_id],
                        OtherPlayer(games_data[last'.game_id], last'.user)) = NoStake)
            => C8_Aborted
       /\ (last'.op = "loser" /\ last'.user # 0
             /\ StakeOf(games_data[last'.game_id], last'.user) = NoStake)
            => C8_Aborted
       /\ (C8_DiceLoser # 0
             /\ StakeOf(games_data[last'.game_id], C8_DiceLoser) = NoStake)
            => C8_Aborted]_vars

\* A Connect Four win was announced for a session whose loser has no stake,
\* and the session is still active.
C8_Witness ==
    /\ last.op = "c4_move"
    /\ last.out = "wins"
    /\ last.game_id \in DOMAIN games_data
    /\ games_data[last.game_id].status = "active"
    /\ StakeOf(games_data[last.game_id],
               OtherPlayer(games_data[last.game_id], last.user)) = NoStake

\* C9: for a dice session of best-of-N, N in {3, 5, 9}: while it is active
\* both scores are below N \div 2 + 1; a step that takes a score to
\* N \div 2 + 1 makes the session complete with that participant announced
\* as the winner; and a roll completes the session only by taking a score to
\* exactly N \div 2 + 1.
C9_BestOfN ==
    /\ [](\A g \in DOMAIN games_data :
            (games_data[g].game_type = "game_dice" /\ games_data[g].status = "active") =>
                /\ games_data[g].rounds_to_play \in RoundChoices
                /\ games_data[g].challenger_score < (games_data[g].rounds_to_play \div 2) + 1
                /\ games_data[g].opponent_score < (games_data[g].rounds_to_play \div 2) + 1)
    /\ [][\A g \in (DOMAIN games_data) \cap (DOMAIN games_data') :
            (games_data[g].game_type = "game_dice" /\ games_data[g].status = "active") =>
                LET a == games_data[g]
                    b == games_data'[g]
                    needed == (a.rounds_to_play \div 2) + 1
                IN  /\ (b.challenger_score >= needed) =>
                          /\ b.status = "complete"
                          /\ last'.who = b.challenger_id
                    /\ (b.opponent_score >= needed) =>
                          /\ b.status = "complete"
                          /\ last'.who = b.opponent_id
                    /\ (last'.op = "dice" /\ b.status = "complete") =>
                          \/ b.challenger_score = needed /\ b.opponent_score < needed
                          \/ b.opponent_score = needed /\ b.challenger_score < needed]_vars

\* A best-of-5 dice match has just ended 3 to 2.
C9_Witness ==
    /\ last.op = "dice"
    /\ last.out = "game over"
    /\ last.game_id \in DOMAIN games_data
    /\ games_data[last.game_id].status = "complete"
    /\ games_data[last.game_id].rounds_to_play = 5
    /\ {games_data[last.game_id].challenger_score,
        games_data[last.game_id].opponent_score} = {2, 3}

\* C10: when a roll equals the pending roll of the other player, both
\* scores and current_round are unchanged, the pending roll is cleared, the
\* session stays active and no balance changes.
C10_TieReplaysRound ==
    [][(last'.op = "dice" /\ last'.user # 0) =>
          LET a == games_data[last'.game_id]
              b == games_data'[last'.game_id]
          IN  (a.last_roll # NoRoll /\ a.last_roll.user_id # last'.user
                 /\ a.last_roll.value = last'.arg) =>
                  /\ b.challenger_score = a.challenger_score
                  /\ b.opponent_score = a.opponent_score
                  /\ b.current_round = a.current_round
                  /\ b.last_roll = NoRoll
                  /\ b.status = "active"
                  /\ points' = points]_vars

\* A tie has just been rolled in the third round of a match.
C10_Witness ==
    /\ last.op = "dice"
    /\ last.out = "tie"
    /\ last.game_id \in DOMAIN games_data
    /\ games_data[last.game_id].current_round = 3
    /\ games_data[last.game_id].last_roll = NoRoll
    /\ games_data[last.game_id].status = "active"

\* A step in which a roll ends a dice match whose loser staked points.
C11_Step ==
    /\ C8_DiceLoser # 0
    /\ StakeOf(games_data[last'.game_id], C8_DiceLoser).type = "points"

\* The winner announced is the participant whose score reached the
\* threshold, every balance but the winner's and the loser's is unchanged,
\* and the session is complete.
C11_Rest(g, w, l) ==
    /\ last'.who = w
    /\ (IF w = games_data'[g].challenger_id THEN games_data'[g].challenger_score
        ELSE games_data'[g].opponent_score) = (games_data'[g].rounds_to_play \div 2) + 1
    /\ \A grp \in Groups, u \in Members :
          (grp # games_data[g].group_id \/ u \notin {w, l}) =>
              points'[grp][u] = points[grp][u]
    /\ games_data'[g].status = "complete"

C12_PieceInLowestEmptyRow ==
    [][(last'.op = "c4_move") =>
          IF last'.user = 0
          THEN games_data' = games_data
          ELSE LET g == last'.game_id
                   u == last'.user
                   col == last'.arg
               IN  (g \in DOMAIN games_data /\ games_data[g].status = "active"
                      /\ games_data[g].turn = u) =>
                       LET board == games_data[g].board
                           row == CHOOSE r \in 0..5 :
                                     /\ board[r][col] = 0
                                     /\ \A x \in (r + 1)..5 : board[x][col] # 0
                           piece == IF u = games_data[g].challenger_id THEN 1 ELSE 2
                       IN  games_data'[g].board =
                               [r \in 0..5 |-> [c \in 0..6 |->
                                   IF r = row /\ c = col THEN piece ELSE board[r][c]]]]_vars

\* Four cells in a line from (r, c) in direction d, all on the board and
\* all holding piece p.
C13_FourFrom(board, p, r, c, d) ==
    \A i \in 0..3 :
        /\ r + i * d[1] \in 0..5
        /\ c + i * d[2] \in 0..6
        /\ board[r + i * d[1]][c + i * d[2]] = p

\* C13: check_connect_four_win(board, p) is true if and only if the board
\* has four consecutive cells equal to p along a row, a column, the
\* down-right diagonal or the up-right diagonal.
C13_WinIffFourInLine ==
    (last.op = "check_connect_four_win") =>
        ((last.out = "True") <=>
            \E r \in 0..5, c \in 0..6,
               d \in {<<0, 1>>, <<1, 0>>, <<1, 1>>, <<-1, 1>>} :
                C13_FourFrom(games_data[last.game_id].board, last.arg, r, c, d))

\* The function found four of piece 2 on the up-right diagonal that ends in
\* the top right corner, on a board where piece 1 has no four in a line.
C13_Witness ==
    /\ last.op = "check_connect_four_win"
    /\ last.arg = 2
    /\ last.out = "True"
    /\ \A i \in 0..3 : games_data[last.game_id].board[3 - i][3 + i] = 2
    /\ games_data[last.game_id].board[5][0] = 0

\* The board after piece is dropped into column col.
C14_Dropped(board, col, piece) ==
    LET row == CHOOSE r \in 0..5 :
                  /\ board[r][col] = 0
                  /\ \A x \in (r + 1)..5 : board[x][col] # 0
    IN  [r \in 0..5 |-> [c \in 0..6 |-> IF r = row /\ c = col THEN piece ELSE board[r][c]]]

\* C14: an accepted Connect Four move that gives the mover no four in a
\* line and fills the top row completes the session without settlement (no
\* balance changes, no media is broadcast, no winner is announced); a move
\* that fills the top row and completes four in a line is a win, settled for
\* the mover; a move that does neither leaves the session active.
C14_DrawWithoutSettlement ==
    [][(last'.op = "c4_move" /\ last'.user # 0
          /\ last'.game_id \in DOMAIN games_data
          /\ games_data[last'.game_id].status = "active"
          /\ games_data[last'.game_id].turn = last'.user) =>
          LET g == last'.game_id
              u == last'.user
              piece == IF u = games_data[g].challenger_id THEN 1 ELSE 2
              board == C14_Dropped(games_data[g].board, last'.arg, piece)
              four == \E r \in 0..5, c \in 0..6,
                         d \in {<<0, 1>>, <<1, 0>>, <<1, 1>>, <<-1, 1>>} :
                          C13_FourFrom(board, piece, r, c, d)
              full == \A c \in 0..6 : board[0][c] # 0
          IN  /\ (~four /\ full) =>
                    /\ games_data'[g].status = "complete"
                    /\ points' = points
                    /\ negative_tracker' = negative_tracker
                    /\ sent_media' = sent_media
                    /\ last'.who = 0
              /\ (four /\ full) =>
                    /\ games_data'[g].status = "complete"
                    /\ last'.who = u
                    /\ (points' # points \/ sent_media' # sent_media)
              /\ (~four /\ ~full) => games_data'[g].status = "active"]_vars

\* The last move filled the board without four in a line: the session is
\* complete, its board is full, and nothing was paid or broadcast.
C14_Witness ==
    /\ last.op = "c4_move"
    /\ last.out = "draw"
    /\ last.game_id \in DOMAIN games_data
    /\ games_data[last.game_id].status = "complete"
    /\ \A c \in 0..6 : games_data[last.game_id].board[0][c] # 0
    /\ \A grp \in Groups, u \in Members : points[grp][u] = MaxBal
    /\ sent_media = <<>>

\* C15: Battleship play begins only when both participants have completed
\* placement, with the challenger attacking first: every step in which
\* bs_attack_handler resolves an attack (it marks a cell, passes the turn or
\* declares a winner) is taken on a session whose two placement_complete
\* flags are true, and when no cell of the session has been fired at before,
\* the attacker is the challenger.
C15_Resolved ==
    /\ last'.op = "bs_attack"
    /\ games_data' # games_data \/ last'.who # 0

C15_Unfired(game) ==
    \A p \in DOMAIN game.boards : \A r \in 0..9, c \in 0..9 : game.boards[p][r][c] \in {0, 1}

C15_PlayAfterPlacement ==
    [][C15_Resolved =>
         LET game == games_data[last'.game_id] IN
         /\ \A p \in {game.challenger_id, game.opponent_id} : game.placement_complete[p]
         /\ C15_Unfired(game) => last'.user = game.challenger_id]_vars

\* The challenger has fired the first shot of a session with both fleets placed.
C15_Witness ==
    /\ last.op = "bs_attack"
    /\ last.game_id \in DOMAIN games_data
    /\ LET game == games_data[last.game_id] IN
       /\ last.user = game.challenger_id
       /\ game.turn = game.opponent_id
       /\ game.placement_complete[game.challenger_id]
       /\ game.placement_complete[game.opponent_id]
       /\ Cardinality({rc \in (0..9) \X (0..9) :
               game.boards[game.opponent_id][rc[1]][rc[2]] \in {2, 3}}) = 1
       /\ \A r \in 0..9, c \in 0..9 : game.boards[game.challenger_id][r][c] \in {0, 1}

\* C16: a Battleship attack ends the game with the attacker as winner and
\* the defender as loser if and only if, after the attack, the defender has
\* a full fleet of five ships and every recorded cell of every one of them
\* is hit; in every other resolved attack the turn passes to the defender
\* and the session stays active.
C16_FleetSunk(game, defender, r, c) ==
    LET fleet == game.ships[defender]
        after == [game.boards[defender] EXCEPT ![r][c] =
                     IF @ = 0 THEN 2 ELSE IF @ = 1 THEN 3 ELSE @]
    IN  /\ DOMAIN fleet = {BATTLESHIP_SHIPS[k] : k \in DOMAIN BATTLESHIP_SHIPS}
        /\ \A ship \in DOMAIN fleet : \A i \in DOMAIN fleet[ship] :
              after[fleet[ship][i].r][fleet[ship][i].c] = 3

C18_TurnHolderRefires ==
    /\ last'.op = "bs_attack"
    /\ last'.game_id \in DOMAIN games_data
    /\ LET game == games_data[last'.game_id]
           defender == IF last'.user = game.challenger_id THEN game.opponent_id
                       ELSE game.challenger_id
       IN  /\ game.status = "active"
           /\ game.turn = last'.user
           /\ game.boards[defender][last'.arg \div 10][last'.arg % 10] \in {2, 3}

C18_RefireRejected ==
    [][C18_TurnHolderRefires =>
         /\ games_data' = games_data
         /\ points' = points
         /\ negative_tracker' = negative_tracker
         /\ last'.who = 0
         /\ last'.out = "You have already fired at this location."]_vars

\* The turn holder has just fired at a cell that was already a hit.
C18_Witness ==
    /\ last.op = "bs_attack"
    /\ last.out = "You have already fired at this location."
    /\ last.game_id \in DOMAIN games_data
    /\ LET game == games_data[last.game_id]
           defender == IF last.user = game.challenger_id THEN game.opponent_id
                       ELSE game.challenger_id
       IN  /\ game.status = "active"
           /\ game.turn = last.user
           /\ game.boards[defender][last.arg \div 10][last.arg % 10] = 3

\* C19: a proposed ship is accepted only if all of its cells (the start cell
\* plus length - 1 cells in the chosen orientation) are on the 10x10 board
\* and empty; if not, the participant's board, fleet and list of ships
\* still to place are unchanged and the same ship is asked for again.
\* Ships are accepted in the order Carrier, Battleship, Cruiser, Submarine,
\* Destroyer.
\* What the well-formed texts of PlacementTexts propose: F1 H, G2 H, H3 H,
\* H4 h and j9 v as start row, start column and orientation.
C19_Proposals ==
    << [r |-> 0, c |-> 5, o |-> "H"], [r |-> 1, c |-> 6, o |-> "H"],
       [r |-> 2, c |-> 7, o |-> "H"], [r |-> 3, c |-> 7, o |-> "H"],
       [r |-> 8, c |-> 9, o |-> "V"] >>

C19_Cells(n, size) ==
    LET p == C19_Proposals[n] IN
    {<<p.r + (IF p.o = "V" THEN i ELSE 0), p.c + (IF p.o = "H" THEN i ELSE 0)>> :
        i \in 0..(size - 1)}

C19_FirstShips(k) == {BATTLESHIP_SHIPS[i] : i \in 1..k}

C19_PlacementValidated ==
    [][(last'.op = "bs_placement" /\ last'.game_id \in DOMAIN games_data) =>
         LET u == last'.user
             g == last'.game_id
             board == games_data[g].boards[u]
             fleet == games_data[g].ships[u]
             todo == user_data[u].bs_ships_to_place
             k == Cardinality(DOMAIN fleet)
             ship == BATTLESHIP_SHIPS[k + 1]
             cells == C19_Cells(last'.arg, ShipSize[ship])
             valid == /\ last'.arg \in DOMAIN C19_Proposals
                      /\ \A cell \in cells :
                            /\ cell[1] \in 0..9 /\ cell[2] \in 0..9
                            /\ board[cell[1]][cell[2]] = 0
             accepted == \/ games_data'[g].boards[u] # board
                         \/ games_data'[g].ships[u] # fleet
                         \/ user_data'[u].bs_ships_to_place # todo
         IN  /\ DOMAIN fleet = C19_FirstShips(k)
             /\ accepted =>
                   /\ valid
                   /\ DOMAIN games_data'[g].ships[u] = C19_FirstShips(k + 1)
                   /\ \A other \in DOMAIN fleet : games_data'[g].ships[u][other] = fleet[other]
                   /\ {<<xy.r, xy.c>> : xy \in {games_data'[g].ships[u][ship][i] :
                                                  i \in 1..Len(games_data'[g].ships[u][ship])}} = cells
                   /\ Len(games_data'[g].ships[u][ship]) = ShipSize[ship]
                   /\ games_data'[g].boards[u] = [r \in 0..9 |-> [c \in 0..9 |->
                          IF <<r, c>> \in cells THEN 1 ELSE board[r][c]]]
                   /\ user_data'[u].bs_ships_to_place = Tail(todo)
             /\ ~valid =>
                   /\ ~accepted
                   /\ bs_conv'[u] = bs_conv[u]
                   /\ bs_conv[u] = "BS_AWAITING_PLACEMENT"]_vars

\* A participant with ships already placed has just been refused a text
\* that parses, and is still asked for the same ship.
C19_Witness ==
    /\ last.op = "bs_placement"
    /\ last.out = "Invalid placement"
    /\ last.game_id \in DOMAIN games_data
    /\ games_data[last.game_id].ships[last.user] # <<>>
    /\ user_data[last.user].bs_ships_to_place # <<>>
    /\ bs_conv[last.user] = "BS_AWAITING_PLACEMENT"

\* C20: when a participant's ship-placement conversation has had no input
\* for the idle period and is ended, the session is deleted from the store
\* (and the other participant told); no Battleship session stays active
\* with a placement that is incomplete and no longer running.
C20_Abandoned(g, p) ==
    /\ games_data[g].status = "active"
    /\ games_data[g].game_type = "game_battleship"
    /\ ~games_data[g].placement_complete[p]
    /\ user_data[p].bs_game_id = g
    /\ bs_conv[p] = "END"

C21_RestartDiscardsChoices ==
    [][(last'.op = "restart_game_setup" /\ last'.game_id \in DOMAIN games_data) =>
         LET g == last'.game_id IN
         /\ g \in DOMAIN games_data'
         /\ games_data'[g].game_type = "none"
         /\ games_data'[g].challenger_stake = NoStake
         /\ games_data'[g].rounds_to_play = 0
         /\ games_data'[g].board = Absent
         /\ games_data'[g].group_id = games_data[g].group_id
         /\ games_data'[g].challenger_id = games_data[g].challenger_id
         /\ games_data'[g].opponent_id = games_data[g].opponent_id
         /\ conv'[last'.user] = "GAME_SELECTION"]_vars

\* C22: when the invited opponent refuses a challenge whose challenger
\* staked a photo, video or voice, the challenger's media is broadcast to
\* the group of the session, the session is deleted from the store, and no
\* balance changes.
C22_RefusedMediaBroadcast ==
    [][(/\ last'.op = "refuse_challenge"
        /\ last'.game_id \in DOMAIN games_data
        /\ last'.user = games_data[last'.game_id].opponent_id
        /\ games_data[last'.game_id].challenger_stake.type \in MediaTypes) =>
         LET game == games_data[last'.game_id] IN
         /\ sent_media' = Append(sent_media,
                [chat |-> game.group_id, type |-> game.challenger_stake.type,
                 value |-> game.challenger_stake.value])
         /\ last'.game_id \notin DOMAIN games_data'
         /\ points' = points
         /\ negative_tracker' = negative_tracker]_vars

\* The first challenge, staked with media, has just been refused and its
\* media is the only one broadcast so far.
C22_Witness ==
    /\ last.op = "refuse_challenge"
    /\ last.out = "refused"
    /\ last.game_id = 1
    /\ 1 \notin DOMAIN games_data
    /\ Len(sent_media) = 1
    /\ sent_media[1].type \in MediaTypes
    /\ sent_media[1].chat \in Groups

\* C23: an action by a user who is not the expected actor never mutates
\* state.  Whenever one of these steps changes the session store or a
\* balance, its user is the expected one: the session's opponent_id for
\* accept, refuse and the opponent's stake; the turn holder for a Connect
\* Four move and a Battleship attack; for a dice roll, not the participant
\* whose roll is pending.
C23_Changed ==
    \/ games_data' # games_data
    \/ points' # points
    \/ negative_tracker' # negative_tracker

C23_OnlyExpectedActorMutates ==
    [][(C23_Changed /\ last'.game_id \in DOMAIN games_data) =>
         LET game == games_data[last'.game_id]
             u == last'.user
         IN  /\ last'.op \in {"accept_challenge", "refuse_challenge"} => u = game.opponent_id
             /\ (/\ last'.op \in {"stake_submission_points", "stake_submission_media"}
                 /\ last'.game_id \in DOMAIN games_data'
                 /\ games_data'[last'.game_id].opponent_stake # game.opponent_stake)
                   => u = game.opponent_id
             /\ last'.op \in {"c4_move", "bs_attack"} => u = game.turn
             /\ last'.op = "dice" => u # game.last_roll.user_id]_vars

\* ------------------------------------------- activation, failing transport
\* The session the opponent's branch has saved (second save_games_data) when
\* get_chat_member or the "is on!" announcement raises: the status is
\* active and a dice match is initialised, and the rest of the branch (the
\* Connect Four board message, the Battleship boards and the third save)
\* never runs.
ActivateInterrupted(game) ==
    LET g1 == IF game.game_type = "game_dice"
              THEN [game EXCEPT !.current_round = 1, !.challenger_score = 0,
                                !.opponent_score = 0, !.last_roll = NoRoll]
              ELSE game
    IN  [g1 EXCEPT !.status = "active"]

\* StoreStake when a collaborator call raises.  The opponent's branch has
\* saved twice; on the challenger's branch show_confirmation fails to send
\* after the stake is saved.  The exception leaves the conversation state
\* as it was and no keyboard is sent.
StoreStakeTelegramError(u, g, stake, op, arg) ==
    /\ games_data' = [games_data EXCEPT ![g] =
            IF user_data[u].player_role = "opponent"
            THEN ActivateInterrupted([@ EXCEPT !.opponent_stake = stake])
            ELSE [@ EXCEPT !.challenger_stake = stake]]
    /\ last' = Upd(op, u, g, arg, "TelegramError")
    /\ UNCHANGED <<keyboards, conv>>

\* stake_submission_points with a valid stake and a failing collaborator.
stake_submission_points_error(u, text) ==
    LET g == user_data[u].game_id IN
    /\ conv[u] = "STAKE_SUBMISSION_POINTS"
    /\ text.numeric
    /\ g \in DOMAIN games_data
    /\ points[games_data[g].group_id][u] >= text.value
    /\ StoreStakeTelegramError(u, g, [type |-> "points", value |-> text.value],
                               "stake_submission_points", text.value)
    /\ UNCHANGED <<bs_conv, next_id, points, negative_tracker, user_data, sent_media>>

\* stake_submission_media with a failing collaborator.
stake_submission_media_error(u, media_type) ==
    LET g == user_data[u].game_id IN
    /\ conv[u] = "STAKE_SUBMISSION_MEDIA"
    /\ g \in DOMAIN games_data
    /\ StoreStakeTelegramError(u, g, [type |-> media_type, value |-> u],
                               "stake_submission_media", 0)
    /\ UNCHANGED <<bs_conv, next_id, points, negative_tracker, user_data, sent_media>>

\* A stake is sent while Telegram rejects the bot's calls.
StakeTelegramError(amounts, media) ==
    \/ \E u \in Users, text \in Texts(amounts) : stake_submission_points_error(u, text)
    \/ \E u \in Users, t \in media : stake_submission_media_error(u, t)

\* Battleship from the challenge to the activation, stakes in points or a
\* photo, with collaborator calls that can fail while a stake is handled.
NextActivation ==
    \/ Challenge
    \/ SetupFlow({"game_battleship"}, StakeKinds, 1..MaxStake)
    \/ MediaStake({"photo"})
    \/ StakeTelegramError(1..MaxStake, {"photo"})
    \/ BeginPlacement

SpecActivation == Init /\ [][NextActivation]_vars

\* C24: activation is one complete transition: every stored Battleship
\* session whose status is active has both participants' boards, fleets and
\* placement flags and a turn, also when the announcement or a member lookup
\* fails while the opponent's stake is handled.
C24_ActiveBattleshipHasBoards ==
    \A g \in DOMAIN games_data :
        (games_data[g].game_type = "game_battleship" /\ games_data[g].status = "active")
            => /\ games_data[g].boards # Absent
               /\ games_data[g].ships # Absent
               /\ games_data[g].placement_complete # Absent
               /\ games_data[g].turn = games_data[g].challenger_id

\* ------------------------------------------- settlement, failing transport
\* add_user_points when get_chat_member raises in check_for_negative_points:
\* the new balance and the strike are saved, nothing is reset.  This path is
\* taken only when the new balance is negative.
AddUserPointsLookupError(bank, grp, u, delta) ==
    [points |-> [bank.points EXCEPT ![grp][u] = @ + delta],
     tracker |-> [bank.tracker EXCEPT ![grp][u] = @ + 1]]

\* The banks the two add_user_points calls and the announcement after them
\* can leave when one collaborator call raises: in the winner's call (the
\* loser is never debited), in the loser's call, or in send_message after
\* both balances were written.
TransferInterrupted(bank, grp, winner_id, loser_id, points_val) ==
    LET credited == AddUserPoints(bank, grp, winner_id, points_val)
        in_credit == IF bank.points[grp][winner_id] + points_val < 0
                     THEN {AddUserPointsLookupError(bank, grp, winner_id, points_val)}
                     ELSE {}
        in_debit == {AddUserPointsLookupError(b, grp, loser_id, 0 - points_val) :
                        b \in {x \in credited : x.points[grp][loser_id] - points_val < 0}}
        in_send == UNION {AddUserPoints(b, grp, loser_id, 0 - points_val) : b \in credited}
    IN  in_credit \cup in_debit \cup in_send

\* handle_game_over when a collaborator call raises: at the member lookups
\* or while the media is sent nothing has changed; with a stake in points
\* the balances are written and the status is never saved.
handle_game_over_error(g, winner_id, loser_id) ==
    LET game == games_data[g]
        loser_stake == LoserStake(game, loser_id)
    IN  /\ loser_stake # NoStake
        /\ \E left \in {Bank} \cup
                  (IF loser_stake.type = "points"
                   THEN TransferInterrupted(Bank, game.group_id, winner_id, loser_id,
                                            loser_stake.value)
                   ELSE {}) :
              /\ points' = left.points
              /\ negative_tracker' = left.tracker
        /\ UNCHANGED <<games_data, sent_media>>

\* connect_four_move_handler on a winning move when handle_game_over raises:
\* the board message has been edited, the store is as handle_game_over left it.
connect_four_move_handler_error(u, g, col) ==
    /\ \E grp \in Groups : Kb("c4_move", g, grp) \in keyboards
    /\ g \in DOMAIN games_data
    /\ games_data[g].status = "active"
    /\ games_data[g].turn = u
    /\ LET game == games_data[g]
           player_num == IF u = game.challenger_id THEN 1 ELSE 2
           empty_rows == {r \in 0..5 : game.board[r][col] = 0}
           board == [game.board EXCEPT ![Max(empty_rows)][col] = player_num]
           other == IF u = game.challenger_id THEN game.opponent_id
                    ELSE game.challenger_id
       IN  /\ empty_rows # {}
           /\ check_connect_four_win(board, player_num)
           /\ handle_game_over_error(g, u, other)
           /\ keyboards' = {k \in keyboards : ~(k.kind = "c4_move" /\ k.game_id = g)}
           /\ last' = Won("c4_move", u, g, col, "TelegramError", u)
    /\ UNCHANGED <<bs_conv, next_id, user_data, conv>>

\* dice_roll_handler on the roll that decides a round when a collaborator
\* call raises: the score is not saved (the pending roll stays), and if the
\* roll ends the match for a stake in points the balances may be written.
dice_roll_handler_error(chat, u, value) ==
    LET g == ActiveDiceGame(u) IN
    /\ g # 0
    /\ LET game == games_data[g]
           last_roll == game.last_roll
           winner_id == IF last_roll.value > value THEN last_roll.user_id ELSE u
           scored == IF winner_id = game.challenger_id
                     THEN [game EXCEPT !.challenger_score = @ + 1]
                     ELSE [game EXCEPT !.opponent_score = @ + 1]
           rounds_to_win == RoundsToWin(game.rounds_to_play)
           over == scored.challenger_score >= rounds_to_win
                     \/ scored.opponent_score >= rounds_to_win
           game_winner_id == IF scored.challenger_score > scored.opponent_score
                             THEN game.challenger_id ELSE game.opponent_id
           game_loser_id == IF scored.challenger_score > scored.opponent_score
                            THEN game.opponent_id ELSE game.challenger_id
           loser_stake == LoserStake(game, game_loser_id)
       IN  /\ last_roll # NoRoll
           /\ last_roll.user_id # u
           /\ last_roll.value # value
           /\ over => loser_stake # NoStake
           /\ \E left \in {Bank} \cup
                     (IF over /\ loser_stake.type = "points"
                      THEN TransferInterrupted(Bank, game.group_id, game_winner_id,
                                               game_loser_id, loser_stake.value)
                      ELSE {}) :
                 /\ points' = left.points
                 /\ negative_tracker' = left.tracker
           /\ last' = Posted(chat, Won("dice", u, g, value, "TelegramError",
                          IF over THEN game_winner_id ELSE 0))
    /\ UNCHANGED <<games_data, sent_media, bs_conv, next_id, user_data, conv, keyboards>>

\* A deciding roll or a winning move while Telegram rejects the bot's calls.
SettleTelegramError ==
    \/ \E chat \in Groups, u \in Users, v \in DiceValues :
            dice_roll_handler_error(chat, u, v)
    \/ \E u \in Users, g \in GameIds, col \in Columns :
            connect_four_move_handler_error(u, g, col)

\* Dice (one round) and Connect Four for points, with collaborator calls
\* that can fail while a game is settled; balances stay within MaxPoints.
NextSettleError ==
    \/ Challenge
    \/ SetupFlow({"game_dice", "game_connect_four"}, {"stake_points"}, 1..MaxStake)
    \/ RoundChoice({1})
    \/ PlayDice
    \/ PlayConnectFour
    \/ (/\ \A grp \in Groups, u \in Members : points[grp][u] <= MaxPoints
        /\ SettleTelegramError)

SpecSettleError == Init /\ [][NextSettleError]_vars

\* C25: a failing message delivery or member lookup does not abort the
\* settlement: a step of a game handler that changes a balance for a session
\* leaves that session complete, and a participant's balance never rises
\* in such a step without the other participant's account being touched.
C25_SettlementCompletes ==
    [][(/\ last'.op \in {"dice", "c4_move"}
        /\ last'.game_id \in DOMAIN games_data
        /\ points' # points)
          => LET game == games_data[last'.game_id]
                 grp == game.group_id
                 c == game.challenger_id
                 o == game.opponent_id
             IN  /\ last'.game_id \in DOMAIN games_data'
                 /\ games_data'[last'.game_id].status = "complete"
                 /\ \A w \in {c, o} : \A l \in {c, o} \ {w} :
                        points'[grp][w] > points[grp][w]
                            => \/ points'[grp][l] # points[grp][l]
                               \/ negative_tracker'[grp][l] # negative_tracker[grp][l]]_vars

\* --------------------------------------------------- dice in two rooms
Rooms == {-1, -2}

\* A dice match of users 1 and 2 as the activation leaves it.
ActiveDiceSession(grp, c, o, rounds) ==
    Activate([NewSession(grp, c, o) EXCEPT
                 !.game_type = "game_dice",
                 !.rounds_to_play = rounds,
                 !.challenger_stake = [type |-> "points", value |-> 1],
                 !.opponent_stake = [type |-> "points", value |-> 1],
                 !.status = "pending_opponent_stake"])

\* Users 1 and 2 have set up one dice match in each of two rooms; the
\* sessions were created in either order and nobody has rolled yet.
InitRooms ==
    /\ \E first \in Rooms, c1 \in Users, c2 \in Users, rounds \in {1, 3} :
          games_data = (1 :> ActiveDiceSession(first, c1, 3 - c1, rounds))
                         @@ (2 :> ActiveDiceSession(CHOOSE r \in Rooms : r # first,
                                                    c2, 3 - c2, rounds))
    /\ next_id = 3
    /\ points = [grp \in Rooms |-> [u \in Members |-> MaxBal]]
    /\ negative_tracker = [grp \in Rooms |-> [u \in Members |-> 0]]
    /\ user_data = [u \in Users |-> [game_id |-> 2, player_role |-> "none",
                                   bs_game_id |-> 0, bs_ships_to_place |-> <<>>]]
    /\ conv = [u \in Users |-> "END"]
    /\ bs_conv = [u \in Users |-> "END"]
    /\ keyboards = {}
    /\ sent_media = <<>>
    /\ last = Upd("init", 0, 0, 0, "")

\* A participant posts a dice message in one of the rooms.
NextRooms ==
    \E chat \in Rooms, u \in Users, v \in DiceValues : dice_roll_handler(chat, u, v)

SpecRooms == InitRooms /\ [][NextRooms]_vars

\* C27: a roll posted by a participant in a room is applied only to an
\* active dice session of that room in which the participant plays: no
\* session of another room changes, and while the participant has an active
\* dice session in the room of the roll, that session is the one that the
\* roll advances.
C27_RollStaysInRoom ==
    [][last'.op = "dice" =>
         /\ \A g \in DOMAIN games_data :
               (g \notin DOMAIN games_data' \/ games_data'[g] # games_data[g])
                   => games_data[g].group_id = last'.chat
         /\ \A g \in DOMAIN games_data :
               (/\ games_data[g].group_id = last'.chat
                /\ games_data[g].game_type = "game_dice"
                /\ games_data[g].status = "active"
                /\ last'.user \in {games_data[g].challenger_id, games_data[g].opponent_id}
                /\ last'.user # 0)
                   => last'.game_id = g]_vars

\* C28: a challenger cannot challenge themselves: /newgame sent as a reply
\* to the sender's own message creates no session, and every stored session
\* has a challenger_id different from its opponent_id.
C28_NoSelfChallenge ==
    [][/\ \A g \in DOMAIN games_data' :
             games_data'[g].challenger_id # games_data'[g].opponent_id
       /\ (last'.op = "newgame" /\ last'.out = "You cannot challenge yourself.")
             => (games_data' = games_data /\ next_id' = next_id)]_vars

\* A user challenges themselves while a session of theirs is stored.
C28_Witness ==
    /\ last.op = "newgame"
    /\ last.out = "You cannot challenge yourself."
    /\ \E g \in DOMAIN games_data : last.user \in {games_data[g].challenger_id,
                                                   games_data[g].opponent_id}

\* ------------------------------------------- two sessions side by side
MaxSideBySide == 2

\* A challenge is issued while fewer than MaxSideBySide sessions are stored.
ChallengeSideBySide ==
    \E grp \in Groups, c \in Users, o \in Users :
        /\ c = o \/ (next_id <= MaxGames
                      /\ Cardinality(DOMAIN games_data) < MaxSideBySide)
        /\ newgame_command(grp, c, o)

\* One-round dice matches for points, a second session being set up while
\* the first is pending, active or complete.
NextSideBySide ==
    \/ ChallengeSideBySide
    \/ SetupFlow({"game_dice"}, {"stake_points"}, 1..MaxStake)
    \/ RoundChoice({1})
    \/ PlayDice

SpecSideBySide == Init /\ [][NextSideBySide]_vars

\* C29: stakes are frozen once play starts: a session that is active keeps
\* its challenger_stake and opponent_stake in every step for as long as it
\* is stored, and no setup or accept event re-initialises its play state
\* (dice scores, round and pending roll, Battleship boards and fleets).
C29_StakesFrozenOnceActive ==
    [][\A g \in DOMAIN games_data \cap DOMAIN games_data' :
          games_data[g].status \in {"active", "complete"}
            => /\ games_data'[g].challenger_stake = games_data[g].challenger_stake
               /\ games_data'[g].opponent_stake = games_data[g].opponent_stake
               /\ last'.op \in {"start_game_setup", "game_selection", "round_selection",
                                "stake_type_selection", "stake_submission_points",
                                "stake_submission_media", "confirm_game_setup",
                                "restart_game_setup", "start_opponent_setup",
                                "accept_challenge", "refuse_challenge"}
                    => /\ games_data'[g].current_round = games_data[g].current_round
                       /\ games_data'[g].challenger_score = games_data[g].challenger_score
                       /\ games_data'[g].opponent_score = games_data[g].opponent_score
                       /\ games_data'[g].last_roll = games_data[g].last_roll
                       /\ games_data'[g].boards = games_data[g].boards
                       /\ games_data'[g].ships = games_data[g].ships]_vars

\* A second session is activated by the same two users while the first is
\* active with a roll pending.
C29_Witness ==
    /\ last.op = "stake_submission_points"
    /\ last.out = "game on"
    /\ \E g \in DOMAIN games_data :
          /\ g # last.game_id
          /\ games_data[g].status = "active"
          /\ games_data[g].last_roll # NoRoll
          /\ games_data[g].opponent_stake # NoStake

\* C30: the status of a session only moves forward along
\* pending_game_selection, pending_opponent_acceptance,
\* pending_opponent_stake, active, complete: no step takes a stored session
\* to an earlier status, a complete session stays complete, and an accept
\* takes effect only on a session that is in pending_opponent_acceptance.
C30_StatusMovesForward ==
    [][LET rank == [s \in {"pending_game_selection", "pending_opponent_acceptance",
                           "pending_opponent_stake", "active", "complete"} |->
                      CASE s = "pending_game_selection" -> 0
                        [] s = "pending_opponent_acceptance" -> 1
                        [] s = "pending_opponent_stake" -> 2
                        [] s = "active" -> 3
                        [] OTHER -> 4]
       IN  /\ \A g \in DOMAIN games_data \cap DOMAIN games_data' :
                 /\ rank[games_data'[g].status] >= rank[games_data[g].status]
                 /\ games_data[g].status = "complete" => games_data'[g].status = "complete"
           /\ (last'.op = "accept_challenge" /\ last'.out = "accepted")
                 => games_data[last'.game_id].status = "pending_opponent_acceptance"]_vars

\* A challenge is accepted while another session of the same users is
\* complete and still stored.
C30_Witness ==
    /\ last.op = "accept_challenge"
    /\ last.out = "accepted"
    /\ games_data[last.game_id].status = "pending_opponent_stake"
    /\ \E g \in DOMAIN games_data : games_data[g].status = "complete"

\* C31: a play or forced-settlement action has no effect on a session whose
\* status is not active: a Connect Four move, a Battleship attack, a dice
\* roll or /loser leaves every pending or complete session as it was, and it
\* moves points or broadcasts a stake only for a session that was active
\* and that the same step makes complete, so a stake is transferred at most
\* once.
C31_InactiveSessionUntouched ==
    [][last'.op \in {"c4_move", "bs_attack", "dice", "loser"} =>
         /\ \A g \in DOMAIN games_data :
               games_data[g].status # "active"
                  => (g \in DOMAIN games_data' /\ games_data'[g] = games_data[g])
         /\ (points' # points \/ sent_media' # sent_media)
               => /\ last'.game_id \in DOMAIN games_data
                  /\ games_data[last'.game_id].status = "active"
                  /\ games_data'[last'.game_id].status = "complete"]_vars

\* A column of the board of a session that /loser has settled is pressed.
C31_Witness ==
    /\ last.op = "c4_move"
    /\ last.out = "This game is no longer active."
    /\ last.game_id \in DOMAIN games_data
    /\ games_data[last.game_id].status = "complete"

\* C32: a points stake validated at submission is still covered at
\* settlement: whenever a step settles a session whose loser staked v
\* points, the loser's balance before the step is at least v, so the
\* transfer never takes the balance below zero, also when the loser has
\* spent points since the stake was submitted.
C32_StakeCoveredAtSettlement ==
    [][(/\ last'.op \in {"dice", "c4_move", "bs_attack", "loser"}
        /\ last'.who # 0
        /\ last'.game_id \in DOMAIN games_data
        /\ last'.game_id \in DOMAIN games_data'
        /\ games_data[last'.game_id].status = "active"
        /\ games_data'[last'.game_id].status = "complete")
          => LET game == games_data[last'.game_id]
                 loser_id == IF last'.who = game.challenger_id THEN game.opponent_id
                             ELSE game.challenger_id
                 loser_stake == IF game.challenger_id = loser_id
                                THEN game.challenger_stake ELSE game.opponent_stake
             IN  loser_stake.type = "points"
                    => points[game.group_id][loser_id] >= loser_stake.value]_vars

\* C33: Connect Four turns alternate strictly, starting with the challenger:
\* an accepted move that neither wins nor draws passes the turn from the
\* mover to the other participant, and in every active Connect Four session
\* the challenger's pieces outnumber the opponent's by 0 when it is the
\* challenger's turn and by 1 when it is the opponent's turn.
C33_TurnsAlternate ==
    [][/\ \A g \in DOMAIN games_data' :
             LET game == games_data'[g]
                 pieces(p) == Cardinality({rc \in (0..5) \X (0..6) :
                                              game.board[rc[1]][rc[2]] = p})
             IN  (game.game_type = "game_connect_four" /\ game.status = "active")
                    => /\ game.turn \in {game.challenger_id, game.opponent_id}
                       /\ pieces(1) - pieces(2) =
                             (IF game.turn = game.challenger_id THEN 0 ELSE 1)
       /\ (last'.op = "c4_move" /\ last'.out = "moved")
             => /\ games_data[last'.game_id].turn = last'.user
                /\ games_data'[last'.game_id].turn # last'.user
                /\ games_data'[last'.game_id].turn \in
                      {games_data[last'.game_id].challenger_id,
                       games_data[last'.game_id].opponent_id}]_vars

\* The opponent has answered the challenger's first move and the challenger
\* has moved again.
C33_Witness ==
    /\ last.op = "c4_move"
    /\ last.out = "moved"
    /\ last.user = games_data[last.game_id].challenger_id
    /\ Cardinality({rc \in (0..5) \X (0..6) :
                       games_data[last.game_id].board[rc[1]][rc[2]] = 2}) = 1

\* C34: Connect Four gravity: every stored board has exactly 6 rows of 7
\* cells, and in no column does an empty cell lie below an occupied one
\* (each column is filled contiguously from row 5 upward).
C34_Gravity ==
    \A g \in DOMAIN games_data :
        LET board == games_data[g].board IN
        board # Absent
          => /\ DOMAIN board = 0..5
             /\ \A r \in 0..5 : DOMAIN board[r] = 0..6
             /\ \A c \in 0..6 : \A r \in 0..4 :
                    board[r][c] # 0 => board[r + 1][c] # 0

\* A piece has been dropped on top of another one.
C34_Witness ==
    /\ last.op = "c4_move"
    /\ last.out = "moved"
    /\ games_data[last.game_id].board[4][last.arg] # 0

\* C35: Connect Four terminates within 42 accepted moves: every move the
\* handler accepts on an active session (made by the turn holder into a
\* column that is not full) either fills one more cell of the stored board
\* or leaves the session complete, and no active session is stored with a
\* full top row.
C35_EveryMoveAdvances ==
    [][/\ (last'.op = "c4_move" /\ last'.out \in {"moved", "wins", "draw"})
             => LET before == games_data[last'.game_id]
                    after == games_data'[last'.game_id]
                    pieces(game) == Cardinality({rc \in (0..5) \X (0..6) :
                                                    game.board[rc[1]][rc[2]] # 0})
                IN  \/ after.status = "complete"
                    \/ pieces(after) = pieces(before) + 1
       /\ \A g \in DOMAIN games_data' :
             (games_data'[g].game_type = "game_connect_four"
                 /\ games_data'[g].status = "active")
                => \E c \in 0..6 : games_data'[g].board[0][c] = 0]_vars

\* C36: Battleship fleet consistency: on each participant's board the cells
\* marked ship or hit are exactly the coordinates recorded in that
\* participant's fleet, the recorded ships are pairwise disjoint, each
\* recorded ship is a straight in-bounds run of its roster length, and a
\* participant whose placement is complete has 17 such cells in 5 ships.
C36_FleetConsistent ==
    \A g \in DOMAIN games_data :
        LET game == games_data[g] IN
        game.boards # Absent =>
          \A p \in DOMAIN game.boards :
            LET board == game.boards[p]
                fleet == game.ships[p]
                recorded(ship) == {<<fleet[ship][i].r, fleet[ship][i].c>> :
                                      i \in DOMAIN fleet[ship]}
                marked == {rc \in (0..9) \X (0..9) : board[rc[1]][rc[2]] \in {1, 3}}
            IN  /\ marked = UNION {recorded(ship) : ship \in DOMAIN fleet}
                /\ \A s1 \in DOMAIN fleet : \A s2 \in DOMAIN fleet \ {s1} :
                       recorded(s1) \cap recorded(s2) = {}
                /\ \A ship \in DOMAIN fleet :
                       /\ Len(fleet[ship]) = ShipSize[ship]
                       /\ recorded(ship) \subseteq (0..9) \X (0..9)
                       /\ \/ \A i \in DOMAIN fleet[ship] :
                                /\ fleet[ship][i].r = fleet[ship][1].r
                                /\ fleet[ship][i].c = fleet[ship][1].c + (i - 1)
                          \/ \A i \in DOMAIN fleet[ship] :
                                /\ fleet[ship][i].c = fleet[ship][1].c
                                /\ fleet[ship][i].r = fleet[ship][1].r + (i - 1)
                /\ game.placement_complete[p]
                      => /\ Cardinality(marked) = 17
                         /\ Cardinality(DOMAIN fleet) = 5

\* A participant has just placed the last ship of the roster.
C36_Witness ==
    /\ last.op = "bs_placement"
    /\ last.out = "Destroyer"
    /\ last.game_id \in DOMAIN games_data
    /\ games_data[last.game_id].placement_complete[last.user]

\* C37: Battleship turns alternate after every resolved attack: an attack
\* that is resolved (a hit or a miss by the turn holder on a cell not fired
\* at before) and is not answered with the announcement of the attacker's
\* victory leaves the session active with the turn on the defender, and a
\* rejected attack (wrong turn, cell already attacked) changes nothing.
C37_TurnPassesToDefender ==
    [][last'.op = "bs_attack" =>
         /\ (games_data' # games_data \/ last'.who # 0)
               => LET game == games_data[last'.game_id]
                      after == games_data'[last'.game_id]
                      defender == IF last'.user = game.challenger_id
                                  THEN game.opponent_id ELSE game.challenger_id
                  IN  /\ game.turn = last'.user
                      /\ last'.who = 0 => (after.status = "active" /\ after.turn = defender)
         /\ last'.out \in {"It's not your turn!",
                           "You have already fired at this location."}
               => games_data' = games_data]_vars

\* The opponent has answered a miss of the challenger with a hit that sinks
\* nothing and the turn is back with the challenger.
C37_Witness ==
    /\ last.op = "bs_attack"
    /\ last.out = "It's a HIT!"
    /\ last.who = 0
    /\ last.game_id \in DOMAIN games_data
    /\ games_data[last.game_id].turn # last.user
    /\ \E rc \in (0..9) \X (0..9) :
          games_data[last.game_id].boards[last.user][rc[1]][rc[2]] = 2

\* C38: cancelling during ship placement deletes the session and transfers
\* nothing: after /cancel by a participant whose placement conversation is
\* open the session is no longer stored, the balances and strike counters
\* are as before and no stake has been broadcast.
C38_CancelDeletesWithoutTransfer ==
    [][last'.op = "bs_placement_cancel" =>
         /\ last'.game_id \notin DOMAIN games_data'
         /\ \A g \in DOMAIN games_data \ {last'.game_id} :
               g \in DOMAIN games_data' /\ games_data'[g] = games_data[g]
         /\ points' = points
         /\ negative_tracker' = negative_tracker
         /\ sent_media' = sent_media]_vars

\* An active session with both stakes set is cancelled after a participant
\* has placed a ship.
C38_Witness ==
    /\ last.op = "bs_placement_cancel"
    /\ last.out = "cancelled, other player notified"
    /\ games_data = <<>>
    /\ \E u \in Users : Len(user_data[u].bs_ships_to_place) \in 1..4

\* ------------------------------------------------- negative-points strikes
\* An administrator answers /addpoints or /removepoints about any member
\* with an amount up to MaxAdjust, while the balance stays within
\* -MaxOwed..MaxPoints.
GivePoints ==
    \E grp \in Groups, u \in Members, text \in Texts(1..MaxAdjust) :
        /\ points[grp][u] + text.value <= MaxPoints
        /\ conversation_handler("awaiting_addpoints_value", grp, u, text)

TakePoints ==
    \E grp \in Groups, u \in Members, text \in Texts(1..MaxAdjust) :
        /\ points[grp][u] - text.value >= 0 - MaxOwed
        /\ conversation_handler("awaiting_removepoints_value", grp, u, text)

NextStrikes ==
    \/ GivePoints
    \/ TakePoints

SpecStrikes == Init /\ [][NextStrikes]_vars

\* What the strike rule asks of one add_user_points call that adds delta to
\* the balance prev of a user with that many strikes.
C39_Call(prev, strikes, delta, new, new_strikes) ==
    IF prev + delta >= 0
    THEN new = prev + delta /\ new_strikes = 0
    ELSE IF strikes + 1 < 3
    THEN new = 0 /\ new_strikes = strikes + 1
    ELSE new = prev + delta /\ new_strikes = 0

\* C39: every add_user_points call that leaves the balance negative adds
\* one strike to the user; on the first and the second strike the balance is
\* reset to 0, on the third the counter is reset to 0; a call that leaves
\* the balance at 0 or more resets the counter to 0; so the stored counter
\* is 0, 1 or 2 after every call.
C39_StrikesAsStated ==
    [][(last'.op \in {"awaiting_addpoints_value", "awaiting_removepoints_value"}
            /\ last'.out = "done") =>
          LET u == last'.user
              delta == IF last'.op = "awaiting_addpoints_value"
                       THEN last'.arg ELSE 0 - last'.arg
          IN  /\ \E grp \in Groups :
                    C39_Call(points[grp][u], negative_tracker[grp][u], delta,
                             points'[grp][u], negative_tracker'[grp][u])
              /\ \A grp \in Groups : negative_tracker'[grp][u] \in 0..2]_vars

====
